-------------------------- MODULE VirtualFSProofs ---------------------------
(***************************************************************************)
(* Theorems about VirtualFS for any nodes and names: the parents, the lists *)
(* of children and the caches of paths agree after any operations, and what *)
(* they do to the paths is what PackageTree allows.  About TreeWalk: a walk *)
(* yields what stays exactly once, and nothing that is not attached.  About *)
(* PathLookup: it finds what PathResolution says a path means.              *)
(***************************************************************************)
EXTENDS TreeWalk, PathResolution, SequenceTheorems, FiniteSetTheorems, WellFoundedInduction, TLAPS

-----------------------------------------------------------------------------
(* Functions that are defined by recursion along parents.                   *)

\* The parents of the nodes D lead to the nodes Top.
Founded(D, Top, par) ==
    /\ \A n \in D \ Top : par[n] \in D
    /\ \A S \in SUBSET D : S # {} => \E m \in S : m \in Top \/ par[m] \notin S

Recurs(f, D, Top, par, base, step) ==
    \A n \in D : f[n] = IF n \in Top THEN base[n] ELSE step[<<n, f[par[n]]>>]

\* A function is defined by its values where the parents end and by a step
\* from the parent, if the parents neither go in a circle nor go on forever.
LEMMA RecursionDefines ==
    ASSUME NEW D, NEW V, NEW Top \in SUBSET D, NEW par,
           NEW base \in [Top -> V], NEW step \in [D \X V -> V],
           Founded(D, Top, par)
    PROVE  \E f \in [D -> V] : Recurs(f, D, Top, par, base, step)
  <1> DEFINE Val(f, n) == IF n \in Top THEN base[n] ELSE step[<<n, f[par[n]]>>]
             Sol(f, E) == /\ \A n \in E : n \in Top \/ par[n] \in E
                          /\ \A n \in E : f[n] = Val(f, n)
  <1>0. /\ \A n \in D \ Top : par[n] \in D
        /\ \A S \in SUBSET D : S # {} => \E m \in S : m \in Top \/ par[m] \notin S
    BY DEF Founded
  <1>1. ASSUME NEW E \in SUBSET D, NEW f \in [E -> V], Sol(f, E),
               NEW F \in SUBSET D, NEW g \in [F -> V], Sol(g, F), NEW n \in E \cap F
        PROVE  f[n] = g[n]
    <2> DEFINE Bad == {m \in E \cap F : f[m] # g[m]}
    <2>1. Bad = {}
      <3> SUFFICES ASSUME Bad # {} PROVE FALSE
        OBVIOUS
      <3>1. Bad \in SUBSET D
        OBVIOUS
      <3>2. PICK m \in Bad : m \in Top \/ par[m] \notin Bad
        <4> HIDE DEF Bad
        <4> QED
          BY <1>0, <3>1
      <3>3. f[m] = Val(f, m) /\ g[m] = Val(g, m)
        BY <1>1
      <3>4. m \notin Top
        BY <3>3
      <3>5. par[m] \in E \cap F
        BY <1>1, <3>4
      <3>6. f[par[m]] = g[par[m]]
        BY <3>2, <3>4, <3>5
      <3> QED
        BY <3>3, <3>4, <3>6
    <2> QED
      BY <2>1
  <1> DEFINE Has(n, v) == \E E \in SUBSET D : \E f \in [E -> V] : n \in E /\ Sol(f, E) /\ v = f[n]
             U == {n \in D : \E v : Has(n, v)}
             G == [n \in U |-> CHOOSE v : Has(n, v)]
  <1>2. ASSUME NEW E \in SUBSET D, NEW f \in [E -> V], Sol(f, E), NEW n \in E
        PROVE  n \in U /\ G[n] = f[n]
    <2> HIDE DEF Sol
    <2>1. Has(n, f[n])
      BY <1>2
    <2>2. n \in U
      BY <2>1
    <2>3. ASSUME NEW v, Has(n, v) PROVE v = f[n]
      <3>1. PICK F \in SUBSET D : \E g \in [F -> V] : n \in F /\ Sol(g, F) /\ v = g[n]
        BY <2>3
      <3>2. PICK g \in [F -> V] : n \in F /\ Sol(g, F) /\ v = g[n]
        BY <3>1
      <3> QED
        BY <1>1, <1>2, <3>2
    <2> HIDE DEF Has, U
    <2> QED
      BY <2>1, <2>2, <2>3
  <1>3. ASSUME NEW n \in U
        PROVE  G[n] \in V /\ (n \in Top \/ par[n] \in U) /\ G[n] = Val(G, n)
    <2>1. PICK E \in SUBSET D : \E f \in [E -> V] : n \in E /\ Sol(f, E)
      <3> HIDE DEF Sol
      <3> QED
        OBVIOUS
    <2>0. PICK f \in [E -> V] : n \in E /\ Sol(f, E)
      BY <2>1
    <2> HIDE DEF U, G
    <2>2. G[n] = f[n] /\ f[n] \in V
      BY <1>2, <2>0
    <2>3. CASE n \in Top
      BY <2>0, <2>2, <2>3
    <2>4. CASE n \notin Top
      <3>1. par[n] \in E
        BY <2>0, <2>4
      <3>2. par[n] \in U /\ G[par[n]] = f[par[n]]
        BY <1>2, <2>0, <3>1
      <3> QED
        BY <2>0, <2>2, <2>4, <3>2
    <2> QED
      BY <2>3, <2>4
  <1>4. U = D
    <2> SUFFICES ASSUME U # D PROVE FALSE
      OBVIOUS
    <2>1. U \subseteq D /\ D \ U # {}
      OBVIOUS
    <2>2. PICK m \in D \ U : m \in Top \/ par[m] \notin D \ U
      <3> HIDE DEF U
      <3> QED
        BY <1>0, <2>1
    <2>3. m \in Top \/ par[m] \in U
      BY <1>0, <2>2
    <2> DEFINE E == U \cup {m}
               g == [n \in E |-> IF n = m THEN Val(G, m) ELSE G[n]]
    <2> HIDE DEF U, G
    <2>4. Val(G, m) \in V
      <3>1. CASE m \in Top
        BY <3>1
      <3>2. CASE m \notin Top
        <4>1. <<m, G[par[m]]>> \in D \X V
          BY <1>3, <2>2, <2>3, <3>2
        <4> QED
          BY <3>2, <4>1
      <3> QED
        BY <3>1, <3>2
    <2>5. E \in SUBSET D /\ g \in [E -> V]
      BY <1>3, <2>1, <2>4
    <2>6. \A n \in E : n \in Top \/ par[n] \in U
      BY <1>3, <2>3
    <2>7. \A n \in U : g[n] = G[n]
      BY <2>2
    <2>8. \A n \in E : g[n] = Val(g, n)
      <3> SUFFICES ASSUME NEW n \in E PROVE g[n] = Val(g, n)
        OBVIOUS
      <3>1. g[n] = Val(G, n)
        BY <1>3
      <3>2. n \notin Top => g[par[n]] = G[par[n]]
        BY <2>6, <2>7
      <3> QED
        BY <3>1, <3>2
    <2>9. Sol(g, E)
      BY <2>6, <2>8
    <2> HIDE DEF g, E, Sol
    <2>10. m \in E
      BY DEF E
    <2>11. m \in U
      BY <1>2, <2>5, <2>9, <2>10
    <2> QED
      BY <2>2, <2>11
  <1>5. G \in [D -> V] /\ \A n \in D : G[n] = Val(G, n)
    <2>1. DOMAIN G = D /\ G = [n \in D |-> G[n]]
      <3> HIDE DEF Has
      <3> QED
        BY <1>4
    <2> HIDE DEF G, U
    <2> QED
      BY <1>3, <1>4, <2>1
  <1> HIDE DEF G
  <1> QED
    BY <1>5 DEF Recurs

-----------------------------------------------------------------------------
(* Parents.                                                                 *)

PathLike == Seq(Name \cup {"?"})

\* A node avoids top as its parent does.
LEMMA AvoidsUp ==
    ASSUME NEW t, NEW top, NEW n \in Born(t)
    PROVE  Avoids(t, n, top) <=>
               n # top /\ (t.parent[n] = NoNode \/ Avoids(t, t.parent[n], top))
  <1>1. ASSUME Avoids(t, n, top)
        PROVE  n # top /\ (t.parent[n] = NoNode \/ Avoids(t, t.parent[n], top))
    BY <1>1 DEF Avoids
  <1>2. ASSUME n # top, t.parent[n] = NoNode
        PROVE  Avoids(t, n, top)
    <2>1. {n} \in SUBSET (Born(t) \ {top}) /\ n \in {n} /\ \A m \in {n} : t.parent[m] \in {n} \cup {NoNode}
      BY <1>2
    <2> QED
      BY <2>1 DEF Avoids
  <1>3. ASSUME n # top, Avoids(t, t.parent[n], top)
        PROVE  Avoids(t, n, top)
    <2>1. PICK S \in SUBSET (Born(t) \ {top}) :
              t.parent[n] \in S /\ \A m \in S : t.parent[m] \in S \cup {NoNode}
      BY <1>3 DEF Avoids
    <2> DEFINE R == S \cup {n}
    <2>2. R \in SUBSET (Born(t) \ {top}) /\ n \in R /\ \A m \in R : t.parent[m] \in R \cup {NoNode}
      BY <1>3, <2>1
    <2> HIDE DEF R
    <2> QED
      BY <2>2 DEF Avoids
  <1> QED
    BY <1>1, <1>2, <1>3

\* The root is attached, and a node is if its parent is.
LEMMA AttachedUp ==
    ASSUME NEW t, Rooted(t)
    PROVE  /\ Root \in Attached(t)
           /\ \A n \in Born(t) \ {Root} : n \in Attached(t) <=> t.parent[n] \in Attached(t)
           /\ Attached(t) \subseteq Born(t)
  <1>1. ~ Detached(t, Root)
    BY DEF Detached, Avoids
  <1>2. ASSUME NEW n \in Born(t) \ {Root}
        PROVE  n \in Attached(t) <=> t.parent[n] \in Attached(t)
    <2>1. Avoids(t, n, Root) <=> t.parent[n] = NoNode \/ Avoids(t, t.parent[n], Root)
      BY AvoidsUp
    <2>2. t.parent[n] \in Born(t) \cup {NoNode}
      BY DEF Rooted
    <2>3. NoNode \notin Born(t)
      BY NodeAssumption DEF Born
    <2> QED
      BY <2>1, <2>2, <2>3 DEF Attached, Detached
  <1> QED
    BY <1>1, <1>2 DEF Attached, Rooted

\* A directory is not below what is in it.
LEMMA ParentNotBelow ==
    ASSUME NEW t, Rooted(t), NEW n \in Born(t), t.parent[n] # NoNode
    PROVE  Avoids(t, t.parent[n], n)
  <1> SUFFICES ASSUME ~ Avoids(t, t.parent[n], n) PROVE FALSE
    OBVIOUS
  <1> DEFINE B == {m \in Born(t) : ~ Avoids(t, m, n)}
  <1>1. \A m \in Born(t) : t.parent[m] \in Born(t) \cup {NoNode}
    BY DEF Rooted
  <1>2. n \in B
    BY DEF Avoids
  <1>3. ASSUME NEW m \in B PROVE t.parent[m] \in B
    <2>1. CASE m = n
      BY <1>1, <2>1
    <2>2. CASE m # n
      BY <1>1, <2>2, AvoidsUp
    <2> QED
      BY <2>1, <2>2
  <1>4. B \in SUBSET Born(t)
    OBVIOUS
  <1> HIDE DEF B
  <1> QED
    BY <1>2, <1>3, <1>4 DEF Rooted, Acyclic

\* Induction along parents: what holds where they end, and of a node if it does
\* of the parent, holds.
LEMMA AlongParents ==
    ASSUME NEW t, Rooted(t), NEW Good,
           \A n \in Attached(t) : n = Root \/ t.parent[n] \in Good => n \in Good
    PROVE  Attached(t) \subseteq Good
  <1> DEFINE B == Attached(t) \ Good
  <1> SUFFICES ASSUME B # {} PROVE FALSE
    OBVIOUS
  <1>1. B \in SUBSET Born(t)
    BY DEF Attached
  <1>2. PICK m \in B : t.parent[m] \notin B
    <2> HIDE DEF B
    <2> QED
      BY <1>1 DEF Rooted, Acyclic
  <1>3. m # Root
    OBVIOUS
  <1>4. t.parent[m] \in Attached(t)
    BY <1>1, <1>3, AttachedUp
  <1> QED
    BY <1>2, <1>4

-----------------------------------------------------------------------------
(* Above and below.                                                         *)

LEMMA BelowTrans ==
    ASSUME NEW t, NEW a, NEW b, NEW c, Below(t, a, b), Below(t, b, c)
    PROVE  Below(t, a, c)
  <1> SUFFICES ASSUME Avoids(t, a, c) PROVE FALSE
    BY DEF Below
  <1>1. PICK S \in SUBSET (Born(t) \ {c}) : a \in S /\ \A m \in S : t.parent[m] \in S \cup {NoNode}
    BY DEF Avoids
  <1>2. CASE b \in S
    BY <1>1, <1>2 DEF Avoids, Below
  <1>3. CASE b \notin S
    BY <1>1, <1>3 DEF Avoids, Below
  <1> QED
    BY <1>2, <1>3

LEMMA BelowItself ==
    ASSUME NEW t, NEW n
    PROVE  Below(t, n, n)
  BY DEF Below, Avoids

\* A node is below another if it is the other or its parent is below it.
LEMMA BelowUp ==
    ASSUME NEW t, NEW top, NEW n \in Born(t)
    PROVE  Below(t, n, top) <=> n = top \/ (t.parent[n] # NoNode /\ Below(t, t.parent[n], top))
  BY AvoidsUp DEF Below

\* Of two nodes above a third one is above the other.
LEMMA Comparable ==
    ASSUME NEW t, Rooted(t), NEW x \in Born(t), NEW a, NEW b, Below(t, x, a), Below(t, x, b)
    PROVE  Below(t, a, b) \/ Below(t, b, a)
  <1> DEFINE S == {m \in Born(t) : Below(t, m, a) /\ Below(t, m, b)}
  <1> SUFFICES ASSUME ~ Below(t, a, b), ~ Below(t, b, a) PROVE FALSE
    OBVIOUS
  <1>1. PICK m \in S : t.parent[m] \notin S
    <2>1. S \in SUBSET Born(t) /\ x \in S
      OBVIOUS
    <2> HIDE DEF S
    <2> QED
      BY <2>1 DEF Rooted, Acyclic
  <1>2. m # a /\ m # b
    BY <1>1
  <1>3. t.parent[m] # NoNode /\ Below(t, t.parent[m], a) /\ Below(t, t.parent[m], b)
    BY <1>1, <1>2, BelowUp
  <1> QED
    BY <1>1, <1>3 DEF Rooted

\* No two nodes are above each other.
LEMMA BelowAnti ==
    ASSUME NEW t, Rooted(t), NEW a \in Born(t), NEW b, Below(t, a, b), Below(t, b, a)
    PROVE  a = b
  <1> SUFFICES ASSUME a # b PROVE FALSE
    OBVIOUS
  <1>1. t.parent[a] # NoNode /\ Below(t, t.parent[a], b)
    BY BelowUp
  <1>2. Below(t, t.parent[a], a)
    BY <1>1, BelowTrans
  <1> QED
    BY <1>1, <1>2, ParentNotBelow DEF Below

\* What parents do not lead out of is not below what is not there.
LEMMA ClosedAvoids ==
    ASSUME NEW t, NEW S, S \subseteq Born(t), \A m \in S : t.parent[m] \in S \cup {NoNode},
           NEW top, top \notin S
    PROVE  \A n \in S : Avoids(t, n, top)
  BY DEF Avoids

\* The root is below nothing else.
LEMMA RootBelow ==
    ASSUME NEW t, Rooted(t), NEW top, Below(t, Root, top)
    PROVE  top = Root
  BY BelowUp DEF Rooted

\* What is above an attached node is attached, and the other way round, too.
LEMMA AboveAttached ==
    ASSUME NEW t, Rooted(t), NEW n \in Attached(t), NEW top, Below(t, n, top)
    PROVE  top \in Attached(t)
  <1> DEFINE S == Attached(t)
  <1> SUFFICES ASSUME top \notin S PROVE Avoids(t, n, top)
    BY DEF Below
  <1>1. \A m \in S : t.parent[m] \in S \cup {NoNode}
    BY AttachedUp DEF Rooted
  <1>2. S \in SUBSET (Born(t) \ {top}) /\ n \in S
    BY AttachedUp
  <1> HIDE DEF S
  <1> QED
    BY <1>1, <1>2 DEF Avoids

-----------------------------------------------------------------------------
(* Paths are well defined.                                                  *)

Written(t, f) ==
    f = [n \in Born(t) |->
            LET under == IF Detached(t, n) THEN t.last[n] ELSE f[t.parent[n]]
            IN  IF n = Root THEN <<>>
                ELSE IF under # NoPath /\ t.cache[n].under = under THEN t.cache[n].path
                ELSE IF under = NoPath THEN NoPath
                ELSE Append(under, t.name[n])]

\* How a node makes its path of that of its parent, or of the last it knew.
Joined(t, n, under) ==
    IF under # NoPath /\ t.cache[n].under = under THEN t.cache[n].path
    ELSE IF under = NoPath THEN NoPath
    ELSE Append(under, t.name[n])

LEMMA PathLikes ==
    /\ <<>> \in PathLike /\ NoPath \in PathLike /\ NoPath # <<>>
    /\ \A p \in PathLike, k \in Name : Append(p, k) \in PathLike /\ Append(p, k) # NoPath
    /\ Seq(Name) \subseteq PathLike /\ NoPath \notin Seq(Name)
  <1>1. \A p \in PathLike, k \in Name : Append(p, k) \in PathLike /\ Append(p, k)[Len(p) + 1] = k
    BY DEF PathLike
  <1>2. "?" \notin Name
    BY NodeAssumption
  <1>3. \A p \in PathLike, k \in Name : Append(p, k) # NoPath
    <2> SUFFICES ASSUME NEW p \in PathLike, NEW k \in Name, Append(p, k) = NoPath PROVE FALSE
      OBVIOUS
    <2>1. Len(Append(p, k)) = Len(p) + 1 /\ Len(NoPath) = 1 /\ NoPath[1] = "?" /\ Len(p) \in Nat
      BY DEF PathLike, NoPath
    <2>2. Append(p, k)[Len(p) + 1] = k /\ Len(p) + 1 = 1
      BY <1>1, <2>1
    <2> QED
      BY <1>2, <2>1, <2>2
  <1>4. NoPath \notin Seq(Name)
    <2> SUFFICES ASSUME NoPath \in Seq(Name) PROVE FALSE
      OBVIOUS
    <2>1. NoPath[1] \in Name
      BY DEF NoPath
    <2> QED
      BY <1>2, <2>1 DEF NoPath
  <1> QED
    BY <1>1, <1>3, <1>4 DEF PathLike, NoPath

LEMMA JoinedIsPath ==
    ASSUME NEW t \in Trees, NEW n \in Node, NEW under \in PathLike
    PROVE  Joined(t, n, under) \in PathLike
  <1>1. t.cache[n].path \in PathLike /\ t.name[n] \in Name
    BY DEF Trees, PathLike
  <1> QED
    BY <1>1, PathLikes DEF Joined

\* The property path is what its code says of the parent's.
LEMMA PathDefined ==
    ASSUME NEW t, Rooted(t)
    PROVE  /\ PathOf(t) \in [Born(t) -> PathLike]
           /\ PathOf(t)[Root] = <<>>
           /\ \A n \in Born(t) \ {Root} : PathOf(t)[n] = Joined(t, n, Under(t, n))
           /\ \A n \in Born(t) \ {Root} : Under(t, n) \in PathLike
  <1> DEFINE D == Born(t)
             Top == {n \in D : n = Root \/ Detached(t, n)}
             base == [n \in Top |-> IF n = Root THEN <<>> ELSE Joined(t, n, t.last[n])]
             step == [e \in D \X PathLike |-> Joined(t, e[1], e[2])]
             par == t.parent
  <1>1. t \in Trees /\ D \subseteq Node
    BY DEF Rooted, Born
  <1>2. Top \in SUBSET D
    OBVIOUS
  <1>3. base \in [Top -> PathLike]
    <2>1. \A n \in Top : t.last[n] \in PathLike
      BY <1>1 DEF Trees, PathLike
    <2> QED
      BY <1>1, <2>1, JoinedIsPath, PathLikes
  <1>4. step \in [D \X PathLike -> PathLike]
    BY <1>1, JoinedIsPath
  <1>5. \A n \in D \ Top : par[n] \in D /\ n \in Attached(t) /\ n # Root /\ par[n] \in Attached(t)
    BY AttachedUp DEF Attached
  <1>6. Founded(D, Top, par)
    BY <1>5 DEF Founded, Rooted, Acyclic
  <1>7. \E f \in [D -> PathLike] : Recurs(f, D, Top, par, base, step)
    <2> HIDE DEF D, Top, base, step, par
    <2> QED
      BY <1>2, <1>3, <1>4, <1>6, RecursionDefines
  <1>8. PICK f \in [D -> PathLike] : Recurs(f, D, Top, par, base, step)
    BY <1>7
  <1>9. \A n \in D : f[n] = IF n = Root THEN <<>>
                            ELSE Joined(t, n, IF Detached(t, n) THEN t.last[n] ELSE f[par[n]])
    <2> SUFFICES ASSUME NEW n \in D
                 PROVE  f[n] = IF n = Root THEN <<>>
                            ELSE Joined(t, n, IF Detached(t, n) THEN t.last[n] ELSE f[par[n]])
      OBVIOUS
    <2>1. CASE n \in Top
      BY <1>8, <2>1, AttachedUp DEF Attached, Rooted, Recurs
    <2>2. CASE n \notin Top
      BY <1>5, <1>8, <2>2 DEF Recurs
    <2> QED
      BY <2>1, <2>2
  <1>10. Written(t, f)
    <2> DEFINE w == [n \in Born(t) |->
            LET under == IF Detached(t, n) THEN t.last[n] ELSE f[t.parent[n]]
            IN  IF n = Root THEN <<>>
                ELSE IF under # NoPath /\ t.cache[n].under = under THEN t.cache[n].path
                ELSE IF under = NoPath THEN NoPath
                ELSE Append(under, t.name[n])]
    <2>1. \A n \in Born(t) : w[n] = f[n]
      BY <1>9 DEF Joined
    <2>2. w \in [Born(t) -> PathLike]
      <3>1. DOMAIN w = Born(t) /\ w = [n \in Born(t) |-> w[n]]
        OBVIOUS
      <3> HIDE DEF w
      <3> QED
        BY <2>1, <3>1
    <2>3. f = w
      <3> HIDE DEF w
      <3> QED
        BY <2>1, <2>2
    <2> QED
      BY <2>3 DEF Written
  <1>11. Written(t, PathOf(t))
    <2>1. PathOf(t) = CHOOSE g : Written(t, g)
      BY DEF PathOf, Written
    <2> QED
      BY <1>10, <2>1
  <1>12. \A n \in D : PathOf(t)[n] = IF n = Root THEN <<>>
                            ELSE Joined(t, n, IF Detached(t, n) THEN t.last[n] ELSE PathOf(t)[par[n]])
    BY <1>11 DEF Written, Joined
  <1>13. \A n \in D : PathOf(t)[n] \in PathLike
    <2> DEFINE B == {n \in D : PathOf(t)[n] \notin PathLike}
    <2> SUFFICES ASSUME B # {} PROVE FALSE
      OBVIOUS
    <2>1. B \in SUBSET Born(t)
      OBVIOUS
    <2>2. PICK m \in B : par[m] \notin B
      <3> HIDE DEF B
      <3> QED
        BY <2>1 DEF Rooted, Acyclic
    <2>3. CASE m = Root
      BY <1>12, <2>3, PathLikes
    <2>4. CASE m # Root /\ Detached(t, m)
      <3>1. t.last[m] \in PathLike
        BY <1>1 DEF Trees, PathLike
      <3> QED
        BY <1>1, <1>12, <2>4, <3>1, JoinedIsPath
    <2>5. CASE m # Root /\ ~ Detached(t, m)
      <3>1. PathOf(t)[par[m]] \in PathLike
        BY <1>5, <2>2, <2>5
      <3> QED
        BY <1>1, <1>12, <2>5, <3>1, JoinedIsPath
    <2> QED
      BY <2>3, <2>4, <2>5
  <1>14. PathOf(t) \in [Born(t) -> PathLike]
    BY <1>11, <1>13 DEF Written
  <1>15. ASSUME NEW n \in Born(t) \ {Root} PROVE Under(t, n) \in PathLike
    <2>1. t.last[n] \in PathLike
      BY <1>1 DEF Trees, PathLike
    <2> QED
      BY <1>5, <1>13, <2>1 DEF Under
  <1> QED
    BY <1>12, <1>14, <1>15 DEF Under, Rooted

\* The names that lead to a node are those that lead to its parent, and its own.
LEMMA TrailDefined ==
    ASSUME NEW t, Rooted(t)
    PROVE  /\ Trail(t) \in [Born(t) -> Seq(Name)]
           /\ Trail(t)[Root] = <<>>
           /\ \A n \in Born(t) : n # Root /\ t.parent[n] # NoNode =>
                  Trail(t)[n] = Append(Trail(t)[t.parent[n]], t.name[n])
  <1> DEFINE D == Born(t)
             V == Seq(Name)
             Top == {n \in D : n = Root \/ t.parent[n] = NoNode}
             base == [n \in Top |-> <<>>]
             step == [e \in D \X V |-> Append(e[2], t.name[e[1]])]
             par == t.parent
             Eq(f) == f = [n \in D |-> IF n = Root \/ t.parent[n] = NoNode THEN <<>>
                                        ELSE Append(f[t.parent[n]], t.name[n])]
  <1>1. \A n \in D : t.name[n] \in Name
    BY DEF Rooted, Trees, Born
  <1>2. Top \in SUBSET D /\ base \in [Top -> V] /\ step \in [D \X V -> V]
    BY <1>1
  <1>3. Founded(D, Top, par)
    BY DEF Founded, Rooted, Acyclic
  <1>4. \E f \in [D -> V] : Recurs(f, D, Top, par, base, step)
    <2> HIDE DEF D, V, Top, base, step, par
    <2> QED
      BY <1>2, <1>3, RecursionDefines
  <1>5. PICK f \in [D -> V] : Recurs(f, D, Top, par, base, step)
    BY <1>4
  <1>6. \A n \in D \ Top : par[n] \in D
    BY <1>3 DEF Founded
  <1>7. Eq(f)
    BY <1>5, <1>6 DEF Recurs
  <1>8. Eq(Trail(t))
    <2>1. Trail(t) = CHOOSE g : Eq(g)
      BY DEF Trail
    <2> QED
      BY <1>7, <2>1
  <1>9. \A n \in D : Trail(t)[n] \in V
    <2> DEFINE B == {n \in D : Trail(t)[n] \notin V}
    <2> SUFFICES ASSUME B # {} PROVE FALSE
      OBVIOUS
    <2>1. B \in SUBSET Born(t)
      OBVIOUS
    <2>2. PICK m \in B : par[m] \notin B
      <3> HIDE DEF B
      <3> QED
        BY <2>1 DEF Rooted, Acyclic
    <2>3. m \in D /\ Trail(t)[m] \notin V
      OBVIOUS
    <2>4. \A n \in D : Trail(t)[n] = IF n = Root \/ t.parent[n] = NoNode THEN <<>>
                                      ELSE Append(Trail(t)[t.parent[n]], t.name[n])
      BY <1>8
    <2>5. m \notin Top
      <3> SUFFICES ASSUME m = Root \/ t.parent[m] = NoNode PROVE FALSE
        OBVIOUS
      <3>1. Trail(t)[m] = <<>>
        BY <2>3, <2>4
      <3>2. <<>> \in V
        OBVIOUS
      <3> QED
        BY <2>3, <3>1, <3>2
    <2>6. Trail(t)[par[m]] \in V
      BY <1>6, <2>2, <2>5
    <2>7. Trail(t)[m] = Append(Trail(t)[par[m]], t.name[m])
      BY <2>3, <2>4, <2>5
    <2>8. Append(Trail(t)[par[m]], t.name[m]) \in V
      BY <1>1, <2>3, <2>6
    <2> QED
      BY <2>3, <2>7, <2>8
  <1>10. DOMAIN Trail(t) = D /\ Trail(t) = [n \in D |-> Trail(t)[n]]
    BY <1>8
  <1>11. Root \in D
    BY DEF Rooted
  <1>12. Trail(t) \in [D -> V]
    BY <1>9, <1>10
  <1> QED
    BY <1>8, <1>11, <1>12

LEMMA PathNamesAre ==
    /\ PathNames \subseteq Seq(Name)
    /\ <<>> \in PathNames
    /\ \A p \in Seq(Name) : p \in PathNames <=> Len(p) <= Cardinality(Node) - 1
    /\ \A p \in PathNames \ {<<>>} :
           /\ Front(p) \in PathNames /\ Last(p) \in Name
           /\ p = Append(Front(p), Last(p)) /\ Len(p) = Len(Front(p)) + 1
  <1>1. Cardinality(Node) \in Nat /\ Cardinality(Node) >= 1
    <2>1. Cardinality({Root}) = 1 /\ {Root} \subseteq Node
      BY FS_Singleton, NodeAssumption
    <2> QED
      BY <2>1, FS_Subset, FS_CardinalityType, NodeAssumption
  <1> DEFINE N == Cardinality(Node) - 1
  <1>2. N \in Nat
    BY <1>1
  <1>3. PathNames = UNION {[1 .. m -> Name] : m \in 0 .. N}
    BY DEF PathNames, BoundedSeq, SeqOf
  <1> HIDE DEF N
  <1>4. ASSUME NEW p \in PathNames PROVE p \in Seq(Name) /\ Len(p) <= N
    <2>1. PICK m \in 0 .. N : p \in [1 .. m -> Name]
      BY <1>3
    <2>2. m \in Nat
      BY <1>2
    <2>3. p \in Seq(Name) /\ Len(p) = m
      BY <2>1, <2>2
    <2> QED
      BY <1>2, <2>3
  <1>5. ASSUME NEW p \in Seq(Name), Len(p) <= N PROVE p \in PathNames
    <2>1. p \in [1 .. Len(p) -> Name] /\ Len(p) \in 0 .. N
      BY <1>2, <1>5
    <2> QED
      BY <1>3, <2>1
  <1>6. <<>> \in PathNames
    <2>1. <<>> \in [1 .. 0 -> Name] /\ 0 \in 0 .. N
      BY <1>2
    <2> QED
      BY <1>3, <2>1
  <1>7. ASSUME NEW p \in PathNames \ {<<>>}
        PROVE  /\ Front(p) \in PathNames /\ Last(p) \in Name
               /\ p = Append(Front(p), Last(p)) /\ Len(p) = Len(Front(p)) + 1
    <2>1. p \in Seq(Name) /\ p # <<>> /\ Len(p) <= N
      BY <1>4
    <2>2. Len(p) \in Nat /\ Len(p) >= 1
      BY <2>1
    <2>3. Front(p) \in Seq(Name) /\ Len(Front(p)) = Len(p) - 1
      <3>1. Len(p) - 1 \in Nat /\ Len(p) - 1 <= Len(p)
        BY <2>2
      <3>2. SubSeq(p, 1, Len(p) - 1) \in Seq(Name)
        BY <2>1, <2>2
      <3>3. Len(SubSeq(p, 1, Len(p) - 1)) = Len(p) - 1
        <4>1. \A i \in 1 .. Len(p) - 1 : p[i] \in Name
          BY <2>1, <2>2
        <4> DEFINE q == Len(p) - 1
        <4>0. q \in Int /\ 1 \in Int /\ \A i \in 1 .. q : p[i] \in Name
          BY <3>1, <4>1
        <4>2. Len(SubSeq(p, 1, q)) = IF 1 <= q THEN q - 1 + 1 ELSE 0
          <5> HIDE DEF q
          <5> QED
            BY ONLY <4>0, SubSeqProperties
        <4>3. q \in Nat
          BY <3>1
        <4>4. Len(SubSeq(p, 1, q)) = q
          <5> HIDE DEF q
          <5> QED
            BY ONLY <4>2, <4>3
        <4> QED
          BY ONLY <4>4
      <3> QED
        BY <3>2, <3>3 DEF Front
    <2>4. Front(p) \in PathNames
      BY <1>2, <1>5, <2>1, <2>2, <2>3
    <2>5. Last(p) \in Name
      BY <2>1, <2>2 DEF Last
    <2>6. p = Append(Front(p), Last(p))
      BY <2>1, <2>2 DEF Front, Last
    <2> QED
      BY <2>2, <2>3, <2>4, <2>5, <2>6
  <1>8. PathNames \subseteq Seq(Name)
    BY <1>4
  <1>9. \A p \in Seq(Name) : p \in PathNames <=> Len(p) <= N
    BY <1>4, <1>5
  <1> QED
    BY <1>6, <1>7, <1>8, <1>9 DEF N

\* Induction along a path: what holds of no names, and of names if it does of
\* all but the last, holds.
LEMMA AlongPath ==
    ASSUME NEW Good, \A p \in PathNames : p = <<>> \/ Front(p) \in Good => p \in Good
    PROVE  PathNames \subseteq Good
  <1> DEFINE B == PathNames \ Good
             L == {Len(p) : p \in B}
  <1> SUFFICES ASSUME B # {} PROVE FALSE
    OBVIOUS
  <1>1. \A p \in PathNames : Len(p) \in Nat
    BY PathNamesAre
  <1>2. L \in SUBSET Nat /\ L # {}
    BY <1>1
  <1>3. PICK i \in L : \A j \in L : ~ (j < i)
    <2> HIDE DEF L
    <2>1. PICK i \in L : \A j \in L : ~ (<<j, i>> \in OpToRel(<, Nat))
      BY <1>2, NatLessThanWellFounded, WFMin
    <2> QED
      BY <1>2, <2>1 DEF OpToRel
  <1>4. PICK p \in B : Len(p) = i
    BY <1>3
  <1>5. p # <<>>
    OBVIOUS
  <1>6. Front(p) \in PathNames /\ Len(p) = Len(Front(p)) + 1
    BY <1>5, PathNamesAre
  <1>7. Front(p) \in B
    BY <1>4, <1>5, <1>6
  <1>8. Len(Front(p)) \in L
    BY <1>7
  <1> QED
    BY <1>1, <1>3, <1>4, <1>6, <1>8

\* What is looked up by names: the child of what all but the last lead to.
LEMMA AtDefined ==
    ASSUME NEW t \in Trees
    PROVE  /\ At(t) \in [PathNames -> Node \cup {NoNode}]
           /\ At(t)[<<>>] = Root
           /\ \A p \in PathNames \ {<<>>} :
                  At(t)[p] = IF At(t)[Front(p)] = NoNode THEN NoNode
                             ELSE t.child[At(t)[Front(p)]][Last(p)]
  <1> DEFINE D == PathNames
             V == Node \cup {NoNode}
             Top == {<<>>}
             base == [p \in Top |-> Root]
             step == [e \in D \X V |-> IF e[2] = NoNode \/ e[1] = <<>> THEN NoNode
                                       ELSE t.child[e[2]][Last(e[1])]]
             par == [p \in D |-> Front(p)]
             Eq(f) == f = [p \in D |-> IF p = <<>> THEN Root
                                       ELSE LET d == f[Front(p)]
                                            IN  IF d = NoNode THEN NoNode ELSE t.child[d][Last(p)]]
  <1>1. \A d \in Node, k \in Name : t.child[d][k] \in V
    BY DEF Trees
  <1>2. \A p \in D \ {<<>>} : Front(p) \in D /\ Last(p) \in Name
    BY PathNamesAre
  <1>3. Top \in SUBSET D
    BY PathNamesAre
  <1>4. base \in [Top -> V]
    BY NodeAssumption
  <1>5. step \in [D \X V -> V]
    BY <1>1, <1>2
  <1>6. Founded(D, Top, par)
    <2>1. ASSUME NEW S \in SUBSET D, S # {} PROVE \E m \in S : m \in Top \/ par[m] \notin S
      <3> SUFFICES ASSUME \A m \in S : m \notin Top /\ par[m] \in S PROVE FALSE
        OBVIOUS
      <3> DEFINE Good == D \ S
      <3>1. \A p \in PathNames : p = <<>> \/ Front(p) \in Good => p \in Good
        OBVIOUS
      <3>2. PathNames \subseteq Good
        <4> HIDE DEF Good
        <4> QED
          BY <3>1, AlongPath
      <3> QED
        BY <2>1, <3>2
    <2> QED
      BY <1>2, <2>1 DEF Founded
  <1>7. \E f \in [D -> V] : Recurs(f, D, Top, par, base, step)
    <2> HIDE DEF D, V, Top, base, step, par
    <2> QED
      BY <1>3, <1>4, <1>5, <1>6, RecursionDefines
  <1>8. PICK f \in [D -> V] : Recurs(f, D, Top, par, base, step)
    BY <1>7
  <1>9. Eq(f)
    <2> DEFINE w == [p \in D |-> IF p = <<>> THEN Root
                                 ELSE LET d == f[Front(p)]
                                      IN  IF d = NoNode THEN NoNode ELSE t.child[d][Last(p)]]
    <2>1. ASSUME NEW p \in D PROVE f[p] = w[p]
      <3>1. CASE p = <<>>
        BY <1>8, <3>1 DEF Recurs
      <3>2. CASE p # <<>>
        <4>1. <<p, f[Front(p)]>> \in D \X V /\ par[p] = Front(p)
          BY <1>2, <3>2
        <4>2. f[p] = step[<<p, f[Front(p)]>>]
          BY <1>8, <3>2, <4>1 DEF Recurs
        <4> QED
          BY <3>2, <4>1, <4>2
      <3> QED
        BY <3>1, <3>2
    <2>2. DOMAIN w = D /\ w = [p \in D |-> w[p]]
      OBVIOUS
    <2>3. f = w
      <3> HIDE DEF w
      <3> QED
        BY <2>1, <2>2
    <2> QED
      BY <2>3
  <1>10. Eq(At(t))
    <2>1. At(t) = CHOOSE g : Eq(g)
      BY DEF At
    <2> QED
      BY <1>9, <2>1
  <1>11. \A p \in D : At(t)[p] \in V
    <2> DEFINE Good == {p \in D : At(t)[p] \in V}
    <2>1. ASSUME NEW p \in PathNames, p = <<>> \/ Front(p) \in Good PROVE p \in Good
      <3>1. CASE p = <<>>
        BY <1>10, <3>1, NodeAssumption
      <3>2. CASE p # <<>>
        BY <1>1, <1>2, <1>10, <2>1, <3>2
      <3> QED
        BY <3>1, <3>2
    <2>2. PathNames \subseteq Good
      <3> HIDE DEF Good
      <3> QED
        BY <2>1, AlongPath
    <2> QED
      BY <2>2
  <1>12. DOMAIN At(t) = D /\ At(t) = [p \in D |-> At(t)[p]]
    BY <1>10
  <1>13. At(t) \in [D -> V]
    BY <1>11, <1>12
  <1> QED
    BY <1>10, <1>13, PathNamesAre

-----------------------------------------------------------------------------
(* The invariant of a tree.                                                 *)

\* Those attached are among X, and what holds of X holds of them.
LEMMA Narrow ==
    ASSUME NEW t, NEW X, Sound(t, X)
    PROVE  /\ Attached(t) \subseteq X
           /\ Sound(t, Attached(t))
           /\ Complete(t, X) => TreeInv(t)
  <1>1. Rooted(t) /\ Root \in X /\ X \subseteq Born(t)
        /\ \A m \in Born(t) : t.parent[m] \in Born(t) \cup {NoNode}
    BY DEF Sound, Rooted
  <1>2. ASSUME NEW n \in Attached(t) PROVE n \in X
    <2> SUFFICES ASSUME n \notin X PROVE FALSE
      OBVIOUS
    <2> DEFINE S == Born(t) \ X
    <2>1. S \in SUBSET (Born(t) \ {Root}) /\ n \in S /\ \A m \in S : t.parent[m] \in S \cup {NoNode}
      BY <1>1 DEF Attached, Sound
    <2>2. Detached(t, n)
      <3> HIDE DEF S
      <3> QED
        BY <2>1 DEF Detached, Avoids
    <2> QED
      BY <2>2 DEF Attached
  <1>3. /\ Root \in Attached(t) /\ Attached(t) \subseteq Born(t)
        /\ \A n \in Born(t) \ {Root} : n \in Attached(t) <=> t.parent[n] \in Attached(t)
    BY <1>1, AttachedUp
  <1>4. ASSUME NEW m \in Born(t) \ Attached(t) PROVE t.parent[m] \notin Attached(t)
    BY <1>3
  <1>5. ASSUME NEW d \in Attached(t), NEW k \in Name, t.child[d][k] # NoNode
        PROVE  /\ t.child[d][k] \in Attached(t)
               /\ t.parent[t.child[d][k]] = d /\ t.name[t.child[d][k]] = k
    <2>1. /\ t.child[d][k] \in X
          /\ t.parent[t.child[d][k]] = d /\ t.name[t.child[d][k]] = k
      BY <1>2, <1>5 DEF Sound
    <2>2. t.child[d][k] # Root
      BY <1>1, <1>3, <2>1, NodeAssumption DEF Rooted, Born
    <2> QED
      BY <1>1, <1>3, <2>1, <2>2
  <1>6. Sound(t, Attached(t))
    BY <1>1, <1>2, <1>3, <1>4, <1>5 DEF Sound
  <1>7. Complete(t, X) => Complete(t, Attached(t))
    BY <1>2 DEF Complete
  <1> QED
    BY <1>2, <1>6, <1>7 DEF TreeInv

\* The path of an attached node is made of the names along its parents.
LEMMA PathIsTrail ==
    ASSUME NEW t, Sound(t, Attached(t))
    PROVE  \A n \in Attached(t) : PathOf(t)[n] = Trail(t)[n]
  <1>1. Rooted(t)
    BY DEF Sound
  <1> DEFINE Good == {n \in Attached(t) : PathOf(t)[n] = Trail(t)[n]}
  <1>2. ASSUME NEW n \in Attached(t), n = Root \/ t.parent[n] \in Good PROVE n \in Good
    <2>1. CASE n = Root
      BY <1>1, <2>1, PathDefined, TrailDefined
    <2>2. CASE n # Root
      <3>1. /\ t.parent[n] \in Attached(t) /\ PathOf(t)[t.parent[n]] = Trail(t)[t.parent[n]]
            /\ n \in Born(t) /\ t.parent[n] \in Born(t) /\ t.parent[n] # NoNode
            /\ ~ Detached(t, n)
        BY <1>1, <1>2, <2>2, AttachedUp, NodeAssumption DEF Attached, Born
      <3>2. Trail(t)[n] = Append(Trail(t)[t.parent[n]], t.name[n]) /\ Trail(t)[t.parent[n]] \in Seq(Name)
        BY <1>1, <2>2, <3>1, TrailDefined
      <3>3. Under(t, n) = Trail(t)[t.parent[n]] /\ Under(t, n) # NoPath
        BY <3>1, <3>2, PathLikes DEF Under
      <3>4. PathOf(t)[n] = Joined(t, n, Under(t, n))
        BY <1>1, <2>2, <3>1, PathDefined
      <3>5. CacheFits(t, n)
        BY DEF Sound
      <3> QED
        BY <3>2, <3>3, <3>4, <3>5 DEF Joined, CacheFits
    <2> QED
      BY <2>1, <2>2
  <1>3. Attached(t) \subseteq Good
    <2> HIDE DEF Good
    <2> QED
      BY <1>1, <1>2, AlongParents
  <1> QED
    BY <1>3

\* What is found by names is attached, and the names along its parents are
\* those it was found by.
LEMMA FoundByTrail ==
    ASSUME NEW t, Sound(t, Attached(t))
    PROVE  \A p \in PathNames : At(t)[p] # NoNode =>
               At(t)[p] \in Attached(t) /\ Trail(t)[At(t)[p]] = p
  <1>1. Rooted(t) /\ t \in Trees
    BY DEF Sound, Rooted
  <1> DEFINE Good == {p \in PathNames : At(t)[p] # NoNode =>
                          At(t)[p] \in Attached(t) /\ Trail(t)[At(t)[p]] = p}
  <1>2. ASSUME NEW p \in PathNames, p = <<>> \/ Front(p) \in Good PROVE p \in Good
    <2>1. CASE p = <<>>
      <3>1. At(t)[p] = Root /\ Root \in Attached(t) /\ Trail(t)[Root] = <<>>
        BY <1>1, <2>1, AtDefined, AttachedUp, TrailDefined
      <3> QED
        BY <2>1, <3>1
    <2>2. CASE p # <<>>
      <3> SUFFICES ASSUME At(t)[p] # NoNode
                   PROVE  At(t)[p] \in Attached(t) /\ Trail(t)[At(t)[p]] = p
        OBVIOUS
      <3> DEFINE d == At(t)[Front(p)]
                 k == Last(p)
                 c == t.child[d][k]
      <3>1. Front(p) \in PathNames /\ k \in Name /\ p = Append(Front(p), k)
        BY <2>2, PathNamesAre
      <3>2. d # NoNode /\ At(t)[p] = c
        BY <1>1, <2>2, AtDefined
      <3>3. d \in Attached(t) /\ Trail(t)[d] = Front(p)
        BY <1>2, <2>2, <3>2
      <3> HIDE DEF d, k
      <3>4. c \in Attached(t) /\ t.parent[c] = d /\ t.name[c] = k
        BY <3>1, <3>2, <3>3 DEF Sound
      <3>5. c # Root /\ c \in Born(t)
        BY <1>1, <3>2, <3>4 DEF Rooted, Attached
      <3>6. Trail(t)[c] = Append(Trail(t)[d], k)
        BY <1>1, <3>2, <3>4, <3>5, TrailDefined
      <3> QED
        BY <3>1, <3>2, <3>3, <3>4, <3>6
    <2> QED
      BY <2>1, <2>2
  <1>3. PathNames \subseteq Good
    <2> HIDE DEF Good
    <2> QED
      BY <1>2, AlongPath
  <1> QED
    BY <1>3

\* There are more nodes than names lead to any attached one.
LEMMA TrailIsShort ==
    ASSUME NEW t, Rooted(t)
    PROVE  \A n \in Attached(t) : Trail(t)[n] \in PathNames
  <1> DEFINE Above(n) == {m \in Attached(t) : Len(Trail(t)[m]) <= Len(Trail(t)[n])}
             Good == {n \in Attached(t) : \E A \in SUBSET Above(n) : Cardinality(A) = Len(Trail(t)[n]) + 1}
  <1>1. /\ Attached(t) \subseteq Born(t) /\ Born(t) \subseteq Node
        /\ \A n \in Attached(t) : Trail(t)[n] \in Seq(Name) /\ Len(Trail(t)[n]) \in Nat
    <2>1. Attached(t) \subseteq Born(t) /\ Born(t) \subseteq Node
      BY AttachedUp DEF Born
    <2>2. \A n \in Attached(t) : Trail(t)[n] \in Seq(Name)
      BY <2>1, TrailDefined
    <2>3. \A q \in Seq(Name) : Len(q) \in Nat
      OBVIOUS
    <2> QED
      BY <2>1, <2>2, <2>3
  <1>2. \A n \in Attached(t) : IsFiniteSet(Above(n)) /\ \A A \in SUBSET Above(n) : IsFiniteSet(A)
    <2>1. \A n \in Attached(t) : Above(n) \in SUBSET Node
      BY <1>1
    <2> QED
      BY <2>1, FS_Subset, NodeAssumption
  <1>3. ASSUME NEW n \in Attached(t), n = Root \/ t.parent[n] \in Good PROVE n \in Good
    <2>1. CASE n = Root
      <3>1. {n} \in SUBSET Above(n) /\ Cardinality({n}) = 1
        <4>1. Len(Trail(t)[n]) <= Len(Trail(t)[n])
          BY <1>1
        <4> QED
          BY <4>1, FS_Singleton
      <3>2. Len(Trail(t)[n]) = 0
        BY <2>1, TrailDefined
      <3>3. Cardinality({n}) = Len(Trail(t)[n]) + 1
        BY <3>1, <3>2
      <3> QED
        BY <3>1, <3>3
    <2>2. CASE n # Root
      <3> DEFINE d == t.parent[n]
      <3>1. PICK A \in SUBSET Above(d) : Cardinality(A) = Len(Trail(t)[d]) + 1
        BY <1>3, <2>2
      <3>2. d \in Attached(t) /\ d # NoNode /\ n \in Born(t)
        BY <1>1, <1>3, <2>2, NodeAssumption
      <3>3. Trail(t)[n] = Append(Trail(t)[d], t.name[n])
        BY <2>2, <3>2, TrailDefined
      <3>4. Len(Trail(t)[n]) = Len(Trail(t)[d]) + 1
        BY <1>1, <3>2, <3>3
      <3>5. n \notin A
        BY <1>1, <3>1, <3>2, <3>4
      <3>6. A \cup {n} \in SUBSET Above(n)
        <4>1. \A m \in A : m \in Attached(t) /\ Len(Trail(t)[m]) \in Nat /\ Len(Trail(t)[m]) <= Len(Trail(t)[d])
          BY <1>1
        <4> QED
          BY <1>1, <3>2, <3>4, <4>1
      <3>7. Cardinality(A \cup {n}) = Cardinality(A) + 1
        BY <1>2, <3>2, <3>5, FS_AddElement
      <3>8. Cardinality(A \cup {n}) = Len(Trail(t)[n]) + 1
        BY <3>1, <3>4, <3>7
      <3> QED
        BY <3>6, <3>8
    <2> QED
      BY <2>1, <2>2
  <1>4. Attached(t) \subseteq Good
    <2> HIDE DEF Good
    <2> QED
      BY <1>3, AlongParents
  <1>5. ASSUME NEW n \in Attached(t) PROVE Trail(t)[n] \in PathNames
    <2>1. PICK A \in SUBSET Above(n) : Cardinality(A) = Len(Trail(t)[n]) + 1
      BY <1>4
    <2>2. A \subseteq Node
      BY <1>1
    <2>3. Cardinality(A) <= Cardinality(Node) /\ Cardinality(A) \in Nat /\ Cardinality(Node) \in Nat
      BY <1>2, <2>2, FS_Subset, FS_CardinalityType, NodeAssumption
    <2>4. Len(Trail(t)[n]) <= Cardinality(Node) - 1
      BY <1>1, <2>1, <2>3
    <2> QED
      BY <1>1, <2>4, PathNamesAre
  <1> QED
    BY <1>5

\* A node is found at the end of the names along its parents.
LEMMA TrailFinds ==
    ASSUME NEW t, TreeInv(t)
    PROVE  \A n \in Attached(t) : At(t)[Trail(t)[n]] = n
  <1>1. Rooted(t) /\ t \in Trees /\ Attached(t) \subseteq Born(t)
    BY AttachedUp DEF TreeInv, Sound, Rooted
  <1> DEFINE Good == {n \in Attached(t) : At(t)[Trail(t)[n]] = n}
  <1>2. ASSUME NEW n \in Attached(t), n = Root \/ t.parent[n] \in Good PROVE n \in Good
    <2>1. CASE n = Root
      BY <1>1, <2>1, AtDefined, TrailDefined
    <2>2. CASE n # Root
      <3> DEFINE d == t.parent[n]
                 q == Trail(t)[d]
                 p == Trail(t)[n]
      <3>1. d \in Attached(t) /\ d # NoNode /\ n \in Born(t) /\ At(t)[q] = d
        BY <1>1, <1>2, <2>2, NodeAssumption DEF Born
      <3>2. p = Append(q, t.name[n]) /\ q \in Seq(Name) /\ t.name[n] \in Name /\ p \in PathNames
        BY <1>1, <2>2, <3>1, TrailDefined, TrailIsShort DEF Trees, Born
      <3> HIDE DEF d, p, q
      <3>3. p # <<>>
        BY <3>2
      <3>4. Front(p) = q /\ Last(p) = t.name[n]
        BY <3>2 DEF Front, Last
      <3>5. At(t)[p] = IF At(t)[Front(p)] = NoNode THEN NoNode
                       ELSE t.child[At(t)[Front(p)]][Last(p)]
        BY <1>1, <3>2, <3>3, AtDefined
      <3>7. At(t)[p] = t.child[d][t.name[n]]
        BY <3>1, <3>4, <3>5
      <3>6. t.child[d][t.name[n]] = n
        BY <3>1 DEF TreeInv, Complete, d
      <3> QED
        BY <3>6, <3>7 DEF p
    <2> QED
      BY <2>1, <2>2
  <1>3. Attached(t) \subseteq Good
    <2> HIDE DEF Good
    <2> QED
      BY <1>1, <1>2, AlongParents
  <1> QED
    BY <1>3

-----------------------------------------------------------------------------
(* What the operations on nodes preserve.                                   *)

SameTree(t, u) ==
    u.kind = t.kind /\ u.name = t.name /\ u.parent = t.parent /\ u.child = t.child

\* Where the parents lead depends on the parents only.
LEMMA AvoidsByParents ==
    ASSUME NEW t, NEW u, u.kind = t.kind, u.parent = t.parent
    PROVE  /\ Born(u) = Born(t) /\ Attached(u) = Attached(t)
           /\ \A n, top : Avoids(u, n, top) <=> Avoids(t, n, top)
  <1>1. Born(u) = Born(t)
    BY DEF Born
  <1>2. \A n, top : Avoids(u, n, top) <=> Avoids(t, n, top)
    BY <1>1 DEF Avoids
  <1> QED
    BY <1>1, <1>2 DEF Attached, Detached

\* A tree with other caches, which fit, is as sound.
LEMMA SoundCaches ==
    ASSUME NEW t, NEW u \in Trees, NEW X, Sound(t, X), SameTree(t, u),
           \A m \in X : CacheFits(u, m), \A m \in Unborn(t) : u.cache[m] = t.cache[m]
    PROVE  Sound(u, X) /\ \A Y : Complete(t, Y) => Complete(u, Y)
  <1>1. Born(u) = Born(t) /\ Unborn(u) = Unborn(t)
    BY DEF SameTree, Born, Unborn
  <1>2. Rooted(u)
    BY <1>1 DEF Sound, Rooted, Acyclic, SameTree
  <1>3. Sound(u, X)
    BY <1>1, <1>2 DEF Sound, SameTree, Empty, IsDir
  <1> QED
    BY <1>3 DEF Complete, SameTree

\* Asking for a path leaves everything but caches as it was, and those fit.
LEMMA ReadPathKeeps ==
    ASSUME NEW t, NEW X, Sound(t, X), NEW n \in Born(t)
    PROVE  /\ ReadPath(t, n) \in Trees
           /\ SameTree(t, ReadPath(t, n)) /\ ReadPath(t, n).last = t.last
           /\ \A m \in Node \ Attached(t) : m # n => ReadPath(t, n).cache[m] = t.cache[m]
           /\ Sound(ReadPath(t, n), X)
           /\ \A Y : Complete(t, Y) => Complete(ReadPath(t, n), Y)
  <1> DEFINE asked == {m \in Born(t) \ {Root} :
                         m = n \/ (m \in Attached(t) /\ n \in Attached(t) /\ Below(t, n, m))}
             cache == [m \in Node |->
                         IF m \in asked /\ PathOf(t)[m] # NoPath
                         THEN [under |-> Under(t, m), path |-> PathOf(t)[m]]
                         ELSE t.cache[m]]
             u == ReadPath(t, n)
  <1>1. Rooted(t) /\ t \in Trees /\ asked \subseteq Born(t) \ {Root} /\ Born(t) \subseteq Node
    BY DEF Sound, Rooted, Born
  <1>2. u = [t EXCEPT !.cache = cache]
    BY DEF ReadPath
  <1>3. \A m \in asked : Under(t, m) \in PathLike /\ PathOf(t)[m] \in PathLike
                         /\ PathOf(t)[m] = Joined(t, m, Under(t, m))
    BY <1>1, PathDefined
  <1>0. \A m \in asked : m = n \/ m \in Attached(t)
    OBVIOUS
  <1> HIDE DEF asked
  <1>4. cache \in [Node -> [under : PathLike, path : PathLike]]
    <2>1. t.cache \in [Node -> [under : PathLike, path : PathLike]]
      BY <1>1 DEF Trees, PathLike
    <2> QED
      BY <1>3, <2>1
  <1>5. \A m \in asked : PathOf(t)[m] # NoPath => Under(t, m) # NoPath
    BY <1>3 DEF Joined
  <1>6. ASSUME NEW m \in X
        PROVE  cache[m].under # NoPath => cache[m].path = Append(cache[m].under, t.name[m])
    <2>1. m \in Node /\ CacheFits(t, m)
      BY <1>1 DEF Sound
    <2>2. CASE m \in asked /\ PathOf(t)[m] # NoPath
      <3>1. cache[m].under = Under(t, m) /\ cache[m].path = Joined(t, m, Under(t, m)) /\ Under(t, m) # NoPath
        BY <1>3, <1>5, <2>1, <2>2
      <3> HIDE DEF cache
      <3> QED
        BY <2>1, <3>1 DEF Joined, CacheFits
    <2>3. CASE ~ (m \in asked /\ PathOf(t)[m] # NoPath)
      <3>1. cache[m] = t.cache[m]
        BY <2>1, <2>3
      <3> HIDE DEF cache
      <3> QED
        BY <2>1, <3>1 DEF CacheFits
    <2> QED
      BY <2>2, <2>3
  <1>7. \A m \in Unborn(t) : cache[m] = t.cache[m]
    BY <1>1 DEF Unborn
  <1>11. \A m \in Node \ Attached(t) : m # n => cache[m] = t.cache[m]
    BY <1>0
  <1> HIDE DEF cache
  <1>8. u \in Trees /\ SameTree(t, u) /\ u.last = t.last /\ u.cache = cache
    BY <1>1, <1>2, <1>4 DEF Trees, SameTree, PathLike
  <1>9. \A m \in X : CacheFits(u, m)
    BY <1>6, <1>8 DEF CacheFits, SameTree
  <1>10. Sound(u, X) /\ \A Y : Complete(t, Y) => Complete(u, Y)
    BY <1>7, <1>8, <1>9, SoundCaches
  <1> QED
    BY <1>8, <1>10, <1>11

\* An entry of a list of children may go.
LEMMA UnlistKeeps ==
    ASSUME NEW t, NEW X, Sound(t, X), NEW d \in Node, NEW k \in Name
    PROVE  LET u == WithoutItem(t, d, k)
           IN  /\ u \in Trees
               /\ u.kind = t.kind /\ u.name = t.name /\ u.parent = t.parent
               /\ u.last = t.last /\ u.cache = t.cache
               /\ \A e \in Node, l \in Name :
                      u.child[e][l] = IF e = d /\ l = k THEN NoNode ELSE t.child[e][l]
               /\ Sound(u, X)
  <1> DEFINE u == WithoutItem(t, d, k)
  <1>1. Rooted(t) /\ t \in Trees
    BY DEF Sound, Rooted
  <1>2. u = [t EXCEPT !.child[d][k] = NoNode]
    BY DEF WithoutItem
  <1>3. u \in Trees /\ u.kind = t.kind /\ u.name = t.name /\ u.parent = t.parent
        /\ u.last = t.last /\ u.cache = t.cache
    <2> DEFINE child == [t.child EXCEPT ![d][k] = NoNode]
    <2>1. t.child \in [Node -> [Name -> Node \cup {NoNode}]]
      BY <1>1 DEF Trees
    <2>2. child \in [Node -> [Name -> Node \cup {NoNode}]]
      BY <2>1
    <2>3. u = [t EXCEPT !.child = child]
      BY <1>1, <1>2 DEF Trees
    <2> HIDE DEF child, u
    <2> QED
      BY <1>1, <2>2, <2>3 DEF Trees
  <1>4. \A e \in Node, l \in Name :
            u.child[e][l] = IF e = d /\ l = k THEN NoNode ELSE t.child[e][l]
    BY <1>1, <1>2 DEF Trees
  <1> HIDE DEF u
  <1>5. Born(u) = Born(t) /\ Unborn(u) = Unborn(t) /\ Born(t) \subseteq Node /\ Unborn(t) \subseteq Node
    BY <1>3 DEF Born, Unborn
  <1>6. Rooted(u)
    BY <1>1, <1>3, <1>5 DEF Rooted, Acyclic
  <1>7. \A m \in Unborn(u) : Empty(u, m)
    BY <1>4, <1>5 DEF Sound, Empty
  <1>8. \A m \in X : CacheFits(u, m)
    BY <1>3 DEF Sound, CacheFits
  <1>9. X \subseteq Node
    BY <1>5 DEF Sound
  <1>10. ASSUME NEW e \in X, NEW l \in Name, u.child[e][l] # NoNode
         PROVE  u.child[e][l] \in X /\ u.parent[u.child[e][l]] = e /\ u.name[u.child[e][l]] = l
    <2>1. u.child[e][l] = t.child[e][l]
      BY <1>4, <1>9, <1>10
    <2> QED
      BY <1>3, <1>10, <2>1 DEF Sound
  <1>11. Sound(u, X)
    BY <1>3, <1>5, <1>6, <1>7, <1>8, <1>10 DEF Sound, IsDir
  <1> QED
    BY <1>3, <1>4, <1>11 DEF u

\* n is taken off its parent and off the list there, and knows where it was.
Detaches(t, u, n) ==
    /\ u.kind = t.kind /\ u.name = t.name
    /\ u.parent = [t.parent EXCEPT ![n] = NoNode]
    /\ \A e \in Node, l \in Name :
           u.child[e][l] = IF e = t.parent[n] /\ l = t.name[n] THEN NoNode ELSE t.child[e][l]
    /\ u.last = [t.last EXCEPT ![n] = PathOf(t)[t.parent[n]]]
    /\ u.cache[n] = NoCache
    /\ \A m \in Node \ Attached(t) : u.cache[m] = t.cache[m]

LEMMA DetachKeeps ==
    ASSUME NEW t, NEW X, Sound(t, X), NEW n \in Attached(t) \ {Root}
    PROVE  /\ Detaches(t, Detach(t, n), n)
           /\ Sound(Detach(t, n), X)
           /\ \A Y \in SUBSET X : n \in Y /\ Complete(t, Y) => Complete(Detach(t, n), Y)
  <1> DEFINE p == t.parent[n]
             k == t.name[n]
             v == WithoutItem(t, p, k)
             memo == ReadPath(v, p)
             u == Detach(t, n)
  <1>1. /\ Rooted(t) /\ t \in Trees /\ Born(t) \subseteq Node /\ X \subseteq Born(t)
        /\ Attached(t) \subseteq Born(t)
    BY AttachedUp DEF Sound, Rooted, Born
  <1>2. n \in Born(t) /\ p \in Attached(t) /\ p \in Born(t) /\ p \in Node /\ k \in Name /\ n \in X /\ p \in X
    BY <1>1, AttachedUp, Narrow DEF Trees
  <1>3. u = [memo EXCEPT !.parent[n] = NoNode, !.last[n] = PathOf(t)[p], !.cache[n] = NoCache]
    BY DEF Detach, Unlist, WithoutItem
  <1> HIDE DEF p, k
  <1>4. /\ v.kind = t.kind /\ v.name = t.name /\ v.parent = t.parent /\ v.last = t.last
        /\ v.cache = t.cache
        /\ \A e \in Node, l \in Name :
               v.child[e][l] = IF e = p /\ l = k THEN NoNode ELSE t.child[e][l]
        /\ Sound(v, X)
    BY <1>2, UnlistKeeps
  <1> HIDE DEF v
  <1>5. p \in Born(v)
    BY <1>2, <1>4 DEF Born
  <1>6. memo \in Trees /\ SameTree(v, memo) /\ memo.last = v.last /\ Sound(memo, X)
    BY <1>4, <1>5, ReadPathKeeps
  <1>23. \A m \in Node \ Attached(t) : memo.cache[m] = t.cache[m]
    <2>1. Attached(v) = Attached(t)
      BY <1>4, AvoidsByParents
    <2> QED
      BY <1>2, <1>4, <1>5, <2>1, ReadPathKeeps DEF memo
  <1> HIDE DEF memo
  <1>7. PathOf(t)[p] \in PathLike
    BY <1>1, <1>2, PathDefined
  <1>8. u \in Trees /\ u.kind = memo.kind /\ u.name = memo.name /\ u.child = memo.child
        /\ u.parent = [memo.parent EXCEPT ![n] = NoNode]
        /\ u.last = [memo.last EXCEPT ![n] = PathOf(t)[p]]
        /\ u.cache = [memo.cache EXCEPT ![n] = NoCache]
    <2> DEFINE parent == [memo.parent EXCEPT ![n] = NoNode]
               last == [memo.last EXCEPT ![n] = PathOf(t)[p]]
               cache == [memo.cache EXCEPT ![n] = NoCache]
    <2>1. parent \in [Node -> Node \cup {NoNode}]
      BY <1>6 DEF Trees
    <2>2. last \in [Node -> Seq(Name \cup {"?"})]
      BY <1>6, <1>7 DEF Trees, PathLike
    <2>3. cache \in [Node -> [under : Seq(Name \cup {"?"}), path : Seq(Name \cup {"?"})]]
      BY <1>6, PathLikes DEF Trees, PathLike, NoCache
    <2>4. u = [memo EXCEPT !.parent = parent, !.last = last, !.cache = cache]
      BY <1>3, <1>6 DEF Trees
    <2> HIDE DEF parent, last, cache, u
    <2>5. u \in Trees /\ u.kind = memo.kind /\ u.name = memo.name /\ u.child = memo.child
          /\ u.parent = parent /\ u.last = last /\ u.cache = cache
      BY <1>6, <2>1, <2>2, <2>3, <2>4 DEF Trees
    <2> QED
      BY <2>5 DEF parent, last, cache
  <1> HIDE DEF u
  <1>9. memo.kind = t.kind /\ memo.name = t.name /\ memo.parent = t.parent /\ memo.last = t.last
        /\ \A e \in Node, l \in Name :
               memo.child[e][l] = IF e = p /\ l = k THEN NoNode ELSE t.child[e][l]
    BY <1>4, <1>6 DEF SameTree
  <1>10. memo.cache \in [Node -> [under : Seq(Name \cup {"?"}), path : Seq(Name \cup {"?"})]]
    BY <1>6 DEF Trees
  <1>11. Detaches(t, u, n)
    <2>1. \A m \in Node \ Attached(t) : u.cache[m] = t.cache[m]
      BY <1>8, <1>10, <1>23
    <2> QED
      BY <1>1, <1>2, <1>8, <1>9, <1>10, <2>1 DEF Detaches, p, k
  <1>12. \A m \in Node : u.parent[m] = IF m = n THEN NoNode ELSE t.parent[m]
    BY <1>1, <1>2, <1>8, <1>9 DEF Trees
  <1>13. Born(u) = Born(t) /\ Unborn(u) = Unborn(t) /\ Born(memo) = Born(t) /\ Unborn(memo) = Unborn(t)
    BY <1>8, <1>9 DEF Born, Unborn
  <1>14. Rooted(u)
    <2>1. Acyclic(u)
      <3> SUFFICES ASSUME NEW S \in SUBSET Born(t), S # {} PROVE \E m \in S : u.parent[m] \notin S
        BY <1>13 DEF Acyclic
      <3>1. PICK m \in S : t.parent[m] \notin S
        BY <1>1 DEF Rooted, Acyclic
      <3>2. NoNode \notin S /\ m \in Node
        BY <1>1, NodeAssumption
      <3> QED
        BY <1>12, <3>1, <3>2
    <2> QED
      BY <1>1, <1>8, <1>12, <1>13, <2>1 DEF Rooted
  <1>15. \A m \in Born(u) \ X : u.parent[m] \notin X
    <2>1. NoNode \notin X
      BY <1>1, NodeAssumption
    <2> QED
      BY <1>1, <1>12, <1>13, <2>1 DEF Sound
  <1>16. ASSUME NEW e \in X, NEW l \in Name, u.child[e][l] # NoNode
         PROVE  u.child[e][l] \in X /\ u.parent[u.child[e][l]] = e /\ u.name[u.child[e][l]] = l
    <2> DEFINE c == t.child[e][l]
    <2>1. u.child[e][l] = c /\ ~ (e = p /\ l = k) /\ c # NoNode
      BY <1>1, <1>8, <1>9, <1>16
    <2>2. c \in X /\ t.parent[c] = e /\ t.name[c] = l
      BY <2>1 DEF Sound
    <2>3. c # n
      BY <2>1, <2>2 DEF p, k
    <2> QED
      BY <1>1, <1>8, <1>9, <1>12, <2>1, <2>2, <2>3
  <1>17. \A m \in X : u.parent[m] # NoNode => IsDir(u, u.parent[m])
    BY <1>1, <1>8, <1>9, <1>12 DEF Sound, IsDir
  <1>18. ASSUME NEW m \in X PROVE CacheFits(u, m)
    <2>1. m \in Node /\ CacheFits(memo, m)
      BY <1>1, <1>6 DEF Sound
    <2> QED
      BY <1>8, <1>10, <2>1 DEF CacheFits, NoCache
  <1>19. \A m \in Unborn(u) : u.parent[m] = NoNode /\ Empty(u, m) /\ u.cache[m] = NoCache
    <2>1. \A m \in Unborn(u) : m \in Node /\ m # n
      BY <1>2, <1>13 DEF Unborn
    <2>2. \A m \in Unborn(u) : memo.parent[m] = NoNode /\ Empty(memo, m) /\ memo.cache[m] = NoCache
      BY <1>6, <1>13 DEF Sound
    <2> QED
      BY <1>8, <1>9, <1>10, <1>12, <2>1, <2>2 DEF Empty
  <1>20. Root \in X /\ X \subseteq Born(u) /\ IsDir(u, Root)
    BY <1>1, <1>8, <1>9, <1>13 DEF Sound, IsDir
  <1>21. Sound(u, X)
    BY <1>14, <1>15, <1>16, <1>17, <1>18, <1>19, <1>20 DEF Sound
  <1>22. ASSUME NEW Y \in SUBSET X, n \in Y, Complete(t, Y) PROVE Complete(u, Y)
    <2> SUFFICES ASSUME NEW m \in Y, u.parent[m] # NoNode
                 PROVE  u.child[u.parent[m]][u.name[m]] = m
      BY DEF Complete
    <2>1. m \in Node /\ n \in Node /\ m # n /\ u.parent[m] = t.parent[m] /\ u.name[m] = t.name[m]
      BY <1>1, <1>8, <1>9, <1>12
    <2>2. t.child[t.parent[m]][t.name[m]] = m /\ t.child[p][k] = n
      BY <1>2, <1>22, <2>1, NodeAssumption DEF Complete, p, k
    <2>3. t.parent[m] \in Node /\ t.name[m] \in Name
      BY <1>1, <2>1 DEF Trees
    <2> QED
      BY <1>8, <1>9, <2>1, <2>2, <2>3
  <1> QED
    BY <1>11, <1>21, <1>22 DEF u

\* The names along parents that did not change are the same.
LEMMA SameTrail ==
    ASSUME NEW t, Rooted(t), NEW u, Rooted(u), NEW S \in SUBSET Attached(t), S \subseteq Born(u),
           \A m \in S : m = Root \/ t.parent[m] \in S,
           \A m \in S : u.parent[m] = t.parent[m] /\ u.name[m] = t.name[m]
    PROVE  \A m \in S : Trail(u)[m] = Trail(t)[m] /\ m \in Attached(u)
  <1> DEFINE Good == {m \in Attached(t) : m \in S => Trail(u)[m] = Trail(t)[m] /\ m \in Attached(u)}
  <1>1. Attached(t) \subseteq Born(t)
    BY AttachedUp
  <1>2. ASSUME NEW n \in Attached(t), n = Root \/ t.parent[n] \in Good PROVE n \in Good
    <2> SUFFICES ASSUME n \in S PROVE Trail(u)[n] = Trail(t)[n] /\ n \in Attached(u)
      OBVIOUS
    <2>1. CASE n = Root
      BY <2>1, TrailDefined, AttachedUp
    <2>2. CASE n # Root
      <3> DEFINE p == t.parent[n]
      <3>1. p \in S /\ p # NoNode /\ Trail(u)[p] = Trail(t)[p] /\ p \in Attached(u)
        BY <1>1, <1>2, <2>2, NodeAssumption DEF Born
      <3>2. Trail(t)[n] = Append(Trail(t)[p], t.name[n])
        BY <1>1, <2>2, <3>1, TrailDefined
      <3>3. n \in Born(u) /\ u.parent[n] = p /\ u.name[n] = t.name[n]
        OBVIOUS
      <3> HIDE DEF p
      <3>4. Trail(u)[n] = Append(Trail(u)[p], t.name[n])
        BY <2>2, <3>1, <3>3, TrailDefined
      <3>5. n \in Attached(u)
        BY <2>2, <3>1, <3>3, AttachedUp
      <3> QED
        BY <3>1, <3>2, <3>4, <3>5
    <2> QED
      BY <2>1, <2>2
  <1>3. Attached(t) \subseteq Good
    <2> HIDE DEF Good
    <2> QED
      BY <1>2, AlongParents
  <1> QED
    BY <1>3

\* The attached nodes that are not below n.
Beside(t, n) == {m \in Attached(t) : Avoids(t, m, n)}

LEMMA BesideUp ==
    ASSUME NEW t, Rooted(t), NEW n
    PROVE  \A m \in Beside(t, n) : m = Root \/ t.parent[m] \in Beside(t, n)
  <1> SUFFICES ASSUME NEW m \in Beside(t, n), m # Root PROVE t.parent[m] \in Beside(t, n)
    OBVIOUS
  <1>1. m \in Born(t) /\ t.parent[m] \in Attached(t) /\ t.parent[m] # NoNode
    BY AttachedUp, NodeAssumption DEF Beside, Born
  <1> QED
    BY <1>1, AvoidsUp DEF Beside

\* A node n that no list has may be given to a directory d that is not below it.
MayAttach(t, X, n, d) ==
    /\ Sound(t, X)
    /\ n \in X \ {Root}
    /\ d \in Beside(t, n) /\ IsDir(t, d)
    /\ \A e \in X, k \in Name : t.child[e][k] # n

Moved(t, n, d) == [t EXCEPT !.parent[n] = d, !.last[n] = NoPath]

LEMMA MovedKeeps ==
    ASSUME NEW t, NEW X, NEW n, NEW d, MayAttach(t, X, n, d)
    PROVE  LET u == Moved(t, n, d)
           IN  /\ u.kind = t.kind /\ u.name = t.name /\ u.child = t.child /\ u.cache = t.cache
               /\ \A m \in Node : u.parent[m] = IF m = n THEN d ELSE t.parent[m]
               /\ \A m \in Node : u.last[m] = IF m = n THEN NoPath ELSE t.last[m]
               /\ Sound(u, X)
               /\ d \in Attached(u) /\ Trail(u)[d] = Trail(t)[d]
               /\ Complete(t, X \ {n}) => Complete(u, X \ {n})
  <1> DEFINE u == Moved(t, n, d)
  <1>1. /\ Rooted(t) /\ t \in Trees /\ Born(t) \subseteq Node /\ X \subseteq Born(t)
        /\ Attached(t) \subseteq Born(t) /\ Sound(t, X)
    BY AttachedUp DEF MayAttach, Sound, Rooted, Born
  <1>2. n \in X /\ n # Root /\ n \in Node /\ d \in Beside(t, n) /\ d \in Attached(t) /\ d \in X /\ d \in Node
    BY <1>1, Narrow DEF MayAttach, Beside
  <1>3. u \in Trees /\ u.kind = t.kind /\ u.name = t.name /\ u.child = t.child /\ u.cache = t.cache
        /\ u.parent = [t.parent EXCEPT ![n] = d] /\ u.last = [t.last EXCEPT ![n] = NoPath]
    <2> DEFINE parent == [t.parent EXCEPT ![n] = d]
               last == [t.last EXCEPT ![n] = NoPath]
    <2>1. parent \in [Node -> Node \cup {NoNode}]
      BY <1>1, <1>2 DEF Trees
    <2>2. last \in [Node -> Seq(Name \cup {"?"})]
      BY <1>1, PathLikes DEF Trees, PathLike
    <2>3. u = [t EXCEPT !.parent = parent, !.last = last]
      BY <1>1 DEF Trees, Moved
    <2> HIDE DEF parent, last, u
    <2>4. u \in Trees /\ u.kind = t.kind /\ u.name = t.name /\ u.child = t.child /\ u.cache = t.cache
          /\ u.parent = parent /\ u.last = last
      BY <1>1, <2>1, <2>2, <2>3 DEF Trees
    <2> QED
      BY <2>4 DEF parent, last
  <1> HIDE DEF u
  <1>4. /\ \A m \in Node : u.parent[m] = IF m = n THEN d ELSE t.parent[m]
        /\ \A m \in Node : u.last[m] = IF m = n THEN NoPath ELSE t.last[m]
    BY <1>1, <1>3 DEF Trees
  <1>5. Born(u) = Born(t) /\ Unborn(u) = Unborn(t)
    BY <1>3 DEF Born, Unborn
  <1>6. PICK T \in SUBSET (Born(t) \ {n}) : d \in T /\ \A m \in T : t.parent[m] \in T \cup {NoNode}
    BY <1>2 DEF Beside, Avoids
  <1>7. Acyclic(u)
    <2> SUFFICES ASSUME NEW S \in SUBSET Born(t), S # {}, \A m \in S : u.parent[m] \in S
                 PROVE  FALSE
      BY <1>5 DEF Acyclic
    <2>1. CASE n \notin S
      <3>1. \A m \in S : t.parent[m] \in S
        BY <1>1, <1>4, <2>1
      <3> QED
        BY <1>1, <3>1 DEF Rooted, Acyclic
    <2>2. CASE n \in S
      <3> DEFINE R == S \cap T
      <3>1. d \in R
        BY <1>2, <1>4, <1>6, <2>2
      <3>2. \A m \in R : t.parent[m] \in R
        <4> SUFFICES ASSUME NEW m \in R PROVE t.parent[m] \in R
          OBVIOUS
        <4>1. t.parent[m] \in S
          BY <1>1, <1>4, <1>6
        <4>2. t.parent[m] # NoNode
          BY <1>1, <4>1, NodeAssumption
        <4> QED
          BY <1>6, <4>1, <4>2
      <3>3. R \in SUBSET Born(t)
        OBVIOUS
      <3> HIDE DEF R
      <3> QED
        BY <1>1, <3>1, <3>2, <3>3 DEF Rooted, Acyclic
    <2> QED
      BY <2>1, <2>2
  <1>8. Rooted(u)
    BY <1>1, <1>2, <1>3, <1>4, <1>5, <1>7 DEF Rooted
  <1>9. Sound(u, X)
    <2>1. Root \in X /\ X \subseteq Born(u) /\ IsDir(u, Root)
      BY <1>1, <1>3, <1>5 DEF Sound, IsDir
    <2>2. \A m \in Unborn(u) : m # n /\ m \in Node
      BY <1>1, <1>2, <1>5 DEF Unborn
    <2>3. \A m \in Unborn(u) : u.parent[m] = NoNode /\ Empty(u, m) /\ u.cache[m] = NoCache
      BY <1>1, <1>3, <1>4, <1>5, <2>2 DEF Sound, Empty
    <2>4. \A m \in Born(u) \ X : u.parent[m] \notin X
      BY <1>1, <1>2, <1>4, <1>5 DEF Sound
    <2>5. ASSUME NEW e \in X, NEW k \in Name, u.child[e][k] # NoNode
          PROVE  u.child[e][k] \in X /\ u.parent[u.child[e][k]] = e /\ u.name[u.child[e][k]] = k
      <3>1. u.child[e][k] = t.child[e][k] /\ t.child[e][k] # n
        BY <1>3 DEF MayAttach
      <3>2. t.child[e][k] \in X /\ t.parent[t.child[e][k]] = e /\ t.name[t.child[e][k]] = k
        BY <1>1, <2>5, <3>1 DEF Sound
      <3> QED
        BY <1>1, <1>3, <1>4, <3>1, <3>2
    <2>6. \A m \in X : u.parent[m] # NoNode => IsDir(u, u.parent[m])
      BY <1>1, <1>3, <1>4 DEF Sound, IsDir, MayAttach
    <2>7. \A m \in X : CacheFits(u, m)
      BY <1>1, <1>3 DEF Sound, CacheFits
    <2> QED
      BY <1>8, <2>1, <2>3, <2>4, <2>5, <2>6, <2>7 DEF Sound
  <1>10. d \in Attached(u) /\ Trail(u)[d] = Trail(t)[d]
    <2> DEFINE S == Beside(t, n)
    <2>1. S \in SUBSET Attached(t) /\ S \subseteq Born(u) /\ \A m \in S : m # n /\ m \in Node
      BY <1>1, <1>5 DEF Beside, Avoids
    <2>2. \A m \in S : m = Root \/ t.parent[m] \in S
      BY <1>1, BesideUp
    <2>3. \A m \in S : u.parent[m] = t.parent[m] /\ u.name[m] = t.name[m]
      BY <1>3, <1>4, <2>1
    <2> HIDE DEF S
    <2>4. \A m \in S : Trail(u)[m] = Trail(t)[m] /\ m \in Attached(u)
      BY <1>1, <1>8, <2>1, <2>2, <2>3, SameTrail
    <2> QED
      BY <1>2, <2>4 DEF S
  <1>11. Complete(t, X \ {n}) => Complete(u, X \ {n})
    BY <1>1, <1>3, <1>4 DEF Complete
  <1> QED
    BY <1>3, <1>4, <1>9, <1>10, <1>11 DEF u

\* n is in d in place of what had its name there, which knows where it was.
Attaches(t, u, n, d) ==
    LET c == t.child[d][t.name[n]]
    IN  /\ u.kind = t.kind /\ u.name = t.name
        /\ \A m \in Node :
               u.parent[m] = IF m = n THEN d ELSE IF m = c THEN NoNode ELSE t.parent[m]
        /\ \A e \in Node, k \in Name :
               u.child[e][k] = IF e = d /\ k = t.name[n] THEN n ELSE t.child[e][k]
        /\ u.last[n] = NoPath /\ \A m \in Node \ {n, c} : u.last[m] = t.last[m]
        /\ c # NoNode => c # n /\ c # Root /\ u.last[c] = Trail(t)[d] /\ u.cache[c] = NoCache
        /\ c = NoNode => \A m \in Node \ {n} : u.cache[m] = t.cache[m]

Listing(t, n, d) == [t EXCEPT !.child[d][t.name[n]] = n, !.cache[n] = NoCache]

\* A node whose parent was set may be listed there, when nothing else is.
LEMMA ListKeeps ==
    ASSUME NEW t, NEW X, Sound(t, X), NEW n \in X \ {Root}, NEW d \in X,
           t.parent[n] = d, t.child[d][t.name[n]] = NoNode
    PROVE  LET u == Listing(t, n, d)
           IN  /\ u.kind = t.kind /\ u.name = t.name /\ u.parent = t.parent /\ u.last = t.last
               /\ \A m \in Node \ {n} : u.cache[m] = t.cache[m]
               /\ \A e \in Node, k \in Name :
                      u.child[e][k] = IF e = d /\ k = t.name[n] THEN n ELSE t.child[e][k]
               /\ Sound(u, X)
               /\ Complete(t, X \ {n}) => Complete(u, X)
  <1> DEFINE k0 == t.name[n]
             u == Listing(t, n, d)
  <1>1. Rooted(t) /\ t \in Trees /\ Born(t) \subseteq Node /\ X \subseteq Born(t) /\ k0 \in Name
        /\ n \in Node /\ d \in Node
    <2>1. Rooted(t) /\ X \subseteq Born(t)
      BY DEF Sound
    <2>2. t \in Trees /\ Born(t) \subseteq Node
      BY <2>1 DEF Rooted, Born
    <2>3. n \in Born(t) /\ d \in Born(t)
      BY <2>1
    <2>4. k0 \in Name
      BY <2>1, <2>3 DEF Rooted, Trees, Born
    <2> QED
      BY <2>1, <2>2, <2>3, <2>4
  <1> HIDE DEF k0
  <1>2. /\ u \in Trees /\ u.kind = t.kind /\ u.name = t.name /\ u.parent = t.parent /\ u.last = t.last
        /\ u.child = [t.child EXCEPT ![d][k0] = n] /\ u.cache = [t.cache EXCEPT ![n] = NoCache]
    <2> DEFINE child == [t.child EXCEPT ![d][k0] = n]
               cache == [t.cache EXCEPT ![n] = NoCache]
    <2>1. t.child \in [Node -> [Name -> Node \cup {NoNode}]]
          /\ t.cache \in [Node -> [under : Seq(Name \cup {"?"}), path : Seq(Name \cup {"?"})]]
      BY <1>1 DEF Trees
    <2>2. child \in [Node -> [Name -> Node \cup {NoNode}]]
      BY <1>1, <2>1
    <2>3. cache \in [Node -> [under : Seq(Name \cup {"?"}), path : Seq(Name \cup {"?"})]]
      BY <2>1, PathLikes DEF PathLike, NoCache
    <2>4. u = [t EXCEPT !.child = child, !.cache = cache]
      BY <1>1 DEF Trees, Listing, k0
    <2> HIDE DEF child, cache, u
    <2>5. /\ u \in Trees /\ u.kind = t.kind /\ u.name = t.name /\ u.parent = t.parent /\ u.last = t.last
          /\ u.child = child /\ u.cache = cache
      BY <1>1, <2>2, <2>3, <2>4 DEF Trees
    <2> QED
      BY <2>5 DEF child, cache
  <1> HIDE DEF u
  <1>3. /\ \A e \in Node, k \in Name :
               u.child[e][k] = IF e = d /\ k = k0 THEN n ELSE t.child[e][k]
        /\ \A m \in Node : u.cache[m] = IF m = n THEN NoCache ELSE t.cache[m]
    <2>1. t.child \in [Node -> [Name -> Node \cup {NoNode}]]
          /\ t.cache \in [Node -> [under : Seq(Name \cup {"?"}), path : Seq(Name \cup {"?"})]]
      BY <1>1 DEF Trees
    <2> QED
      BY <1>1, <1>2, <2>1
  <1>4. Born(u) = Born(t) /\ Unborn(u) = Unborn(t) /\ \A m \in Unborn(t) : m \in Node /\ m # n /\ m # d
    BY <1>1, <1>2 DEF Born, Unborn
  <1>5. Sound(u, X)
    <2>1. Root \in X /\ X \subseteq Born(u) /\ IsDir(u, Root)
      BY <1>2, <1>4 DEF Sound, IsDir
    <2>2. Rooted(u)
      BY <1>1, <1>2, <1>4 DEF Rooted, Acyclic
    <2>3. \A m \in Unborn(u) : u.parent[m] = NoNode /\ Empty(u, m) /\ u.cache[m] = NoCache
      BY <1>2, <1>3, <1>4 DEF Sound, Empty
    <2>4. \A m \in Born(u) \ X : u.parent[m] \notin X
      BY <1>2, <1>4 DEF Sound
    <2>5. ASSUME NEW e \in X, NEW k \in Name, u.child[e][k] # NoNode
          PROVE  u.child[e][k] \in X /\ u.parent[u.child[e][k]] = e /\ u.name[u.child[e][k]] = k
      <3>1. CASE e = d /\ k = k0
        BY <1>1, <1>2, <1>3, <3>1 DEF k0
      <3>2. CASE ~ (e = d /\ k = k0)
        <4>1. u.child[e][k] = t.child[e][k]
          BY <1>1, <1>3, <3>2
        <4> QED
          BY <1>2, <2>5, <4>1 DEF Sound
      <3> QED
        BY <3>1, <3>2
    <2>6. \A m \in X : u.parent[m] # NoNode => IsDir(u, u.parent[m])
      BY <1>2 DEF Sound, IsDir
    <2>7. ASSUME NEW m \in X PROVE CacheFits(u, m)
      BY <1>1, <1>2, <1>3 DEF Sound, CacheFits, NoCache
    <2> QED
      BY <2>1, <2>2, <2>3, <2>4, <2>5, <2>6, <2>7 DEF Sound
  <1>6. ASSUME Complete(t, X \ {n}) PROVE Complete(u, X)
    <2> SUFFICES ASSUME NEW m \in X, u.parent[m] # NoNode
                 PROVE  u.child[u.parent[m]][u.name[m]] = m
      BY DEF Complete
    <2>1. m \in Node /\ u.parent[m] = t.parent[m] /\ u.name[m] = t.name[m] /\ u.name[m] \in Name
          /\ u.parent[m] \in Node /\ m # NoNode
      BY <1>1, <1>2, NodeAssumption DEF Trees
    <2>2. CASE m = n
      BY <1>1, <1>3, <2>1, <2>2 DEF k0
    <2>3. CASE m # n
      <3>1. t.child[t.parent[m]][t.name[m]] = m
        BY <1>6, <2>1, <2>3 DEF Complete
      <3>2. ~ (t.parent[m] = d /\ t.name[m] = k0)
        BY <2>1, <3>1 DEF k0
      <3> QED
        BY <1>3, <2>1, <3>1, <3>2
    <2> QED
      BY <2>2, <2>3
  <1> QED
    BY <1>2, <1>3, <1>5, <1>6 DEF u, k0

LEMMA AttachKeeps ==
    ASSUME NEW t, NEW X, NEW n, NEW d, MayAttach(t, X, n, d)
    PROVE  /\ Attaches(t, Attach(t, n, d), n, d)
           /\ Sound(Attach(t, n, d), X)
           /\ Complete(t, X \ {n}) => Complete(Attach(t, n, d), X)
  <1> DEFINE k == t.name[n]
             c == t.child[d][k]
             moved == Moved(t, n, d)
             freed == IF c = NoNode THEN moved ELSE Unlinked(moved, c)
             u == [freed EXCEPT !.child[d][k] = n, !.cache[n] = NoCache]
  <1>1. Attach(t, n, d) = u
    BY DEF Attach, Moved
  <1>2. /\ Rooted(t) /\ t \in Trees /\ Born(t) \subseteq Node /\ X \subseteq Born(t)
        /\ Sound(t, X) /\ n \in X /\ n # Root /\ n \in Node /\ d \in X /\ d \in Node /\ k \in Name
    <2>1. Sound(t, X) /\ n \in X \ {Root} /\ d \in Attached(t)
      BY DEF MayAttach, Beside
    <2>2. Rooted(t) /\ X \subseteq Born(t) /\ Attached(t) \subseteq X
      BY <2>1, Narrow DEF Sound
    <2>3. t \in Trees /\ Born(t) \subseteq Node
      BY <2>2 DEF Rooted, Born
    <2>4. k \in Name
      BY <2>1, <2>2, <2>3 DEF Trees
    <2> QED
      BY <2>1, <2>2, <2>3, <2>4
  <1>3. /\ moved.kind = t.kind /\ moved.name = t.name /\ moved.child = t.child /\ moved.cache = t.cache
        /\ \A m \in Node : moved.parent[m] = IF m = n THEN d ELSE t.parent[m]
        /\ \A m \in Node : moved.last[m] = IF m = n THEN NoPath ELSE t.last[m]
        /\ Sound(moved, X)
        /\ d \in Attached(moved) /\ Trail(moved)[d] = Trail(t)[d]
        /\ Complete(t, X \ {n}) => Complete(moved, X \ {n})
    BY MovedKeeps
  <1> HIDE DEF moved
  <1>4. /\ freed.kind = t.kind /\ freed.name = t.name
        /\ \A m \in Node :
               freed.parent[m] = IF m = n THEN d ELSE IF m = c THEN NoNode ELSE t.parent[m]
        /\ \A e \in Node, l \in Name : ~ (e = d /\ l = k) => freed.child[e][l] = t.child[e][l]
        /\ freed.child[d][k] = NoNode
        /\ freed.last[n] = NoPath /\ \A m \in Node \ {n, c} : freed.last[m] = t.last[m]
        /\ c # NoNode => c # n /\ c # Root /\ freed.last[c] = Trail(t)[d] /\ freed.cache[c] = NoCache
                         /\ c \in Node
        /\ c = NoNode => freed.cache = t.cache
        /\ Sound(freed, X)
        /\ Complete(t, X \ {n}) => Complete(freed, X \ {n})
    <2>1. CASE c = NoNode
      <3>1. freed = moved /\ \A m \in Node : m # c
        BY <2>1, NodeAssumption
      <3> HIDE DEF freed, c
      <3>2. moved.child[d][k] = NoNode
        BY <1>3, <2>1 DEF c
      <3> QED
        BY <1>2, <1>3, <2>1, <3>1, <3>2
    <2>2. CASE c # NoNode
      <3>1. c \in X /\ t.parent[c] = d /\ t.name[c] = k /\ c # n /\ c \in Node /\ c \in Born(t)
        BY <1>2, <2>2 DEF Sound, MayAttach
      <3>2. c # Root
        BY <1>2, <3>1, NodeAssumption DEF Rooted
      <3> HIDE DEF c, k
      <3>3. moved.parent[c] = d /\ moved.name[c] = k /\ Born(moved) = Born(t) /\ Rooted(moved)
        BY <1>3, <3>1 DEF Born, Sound
      <3>4. c \in Attached(moved)
        BY <1>3, <3>1, <3>2, <3>3, AttachedUp
      <3>5. freed = Detach(moved, c)
        BY <2>2, <3>4 DEF Unlinked, Attached
      <3> HIDE DEF freed
      <3>6. /\ Detaches(moved, freed, c) /\ Sound(freed, X)
            /\ \A Y \in SUBSET X : c \in Y /\ Complete(moved, Y) => Complete(freed, Y)
        BY <1>3, <3>2, <3>4, <3>5, DetachKeeps
      <3>7. PathOf(moved)[d] = Trail(t)[d]
        BY <1>3, Narrow, PathIsTrail
      <3>8. moved.parent \in [Node -> Node \cup {NoNode}] /\ moved.last \in [Node -> PathLike]
        BY <1>3 DEF Sound, Rooted, Trees, PathLike
      <3>9. \A m \in Node : freed.parent[m] = IF m = c THEN NoNode ELSE moved.parent[m]
        BY <3>6, <3>8 DEF Detaches
      <3>10. \A m \in Node : freed.last[m] = IF m = c THEN Trail(t)[d] ELSE moved.last[m]
        BY <3>3, <3>6, <3>7, <3>8 DEF Detaches
      <3>11. \A e \in Node, l \in Name :
                 freed.child[e][l] = IF e = d /\ l = k THEN NoNode ELSE t.child[e][l]
        BY <1>3, <3>3, <3>6 DEF Detaches
      <3>12. Complete(t, X \ {n}) => Complete(freed, X \ {n})
        BY <1>3, <3>1, <3>6
      <3>13. freed.kind = t.kind /\ freed.name = t.name /\ freed.cache[c] = NoCache
        BY <1>3, <3>6 DEF Detaches
      <3>14. \A m \in Node :
                 freed.parent[m] = IF m = n THEN d ELSE IF m = c THEN NoNode ELSE t.parent[m]
        BY <1>3, <3>1, <3>9
      <3>15. freed.child[d][k] = NoNode
             /\ \A e \in Node, l \in Name : ~ (e = d /\ l = k) => freed.child[e][l] = t.child[e][l]
        BY <1>2, <3>11 DEF k
      <3>16. freed.last[n] = NoPath /\ \A m \in Node \ {n, c} : freed.last[m] = t.last[m]
        BY <1>2, <1>3, <3>1, <3>10
      <3>17. freed.last[c] = Trail(t)[d]
        BY <3>1, <3>10
      <3> QED
        BY <2>2, <3>1, <3>2, <3>6, <3>12, <3>13, <3>14, <3>15, <3>16, <3>17
    <2> QED
      BY <2>1, <2>2
  <1> HIDE DEF freed
  <1>5. freed.parent[n] = d /\ k = freed.name[n]
    BY <1>2, <1>4
  <1>6. /\ u.kind = freed.kind /\ u.name = freed.name /\ u.parent = freed.parent /\ u.last = freed.last
        /\ \A m \in Node \ {n} : u.cache[m] = freed.cache[m]
        /\ \A e \in Node, l \in Name :
               u.child[e][l] = IF e = d /\ l = k THEN n ELSE freed.child[e][l]
        /\ Sound(u, X)
        /\ Complete(freed, X \ {n}) => Complete(u, X)
    <2> HIDE DEF k, c
    <2>1. Sound(freed, X) /\ n \in X \ {Root} /\ d \in X /\ freed.parent[n] = d
          /\ freed.child[d][freed.name[n]] = NoNode
      BY <1>2, <1>4, <1>5
    <2> DEFINE w == Listing(freed, n, d)
    <2>2. /\ w.kind = freed.kind /\ w.name = freed.name /\ w.parent = freed.parent
          /\ w.last = freed.last
          /\ \A m \in Node \ {n} : w.cache[m] = freed.cache[m]
          /\ \A e \in Node, l \in Name :
                 w.child[e][l] = IF e = d /\ l = freed.name[n] THEN n ELSE freed.child[e][l]
          /\ Sound(w, X)
          /\ Complete(freed, X \ {n}) => Complete(w, X)
      BY ONLY <2>1, ListKeeps
    <2>3. w = u
      BY <1>5 DEF Listing
    <2> HIDE DEF w, u
    <2> QED
      BY <1>5, <2>2, <2>3
  <1> HIDE DEF u
  <1>7. Attaches(t, u, n, d)
    BY <1>2, <1>4, <1>6 DEF Attaches
  <1> QED
    BY <1>1, <1>4, <1>6, <1>7

-----------------------------------------------------------------------------
(* The operations, whole.                                                   *)

\* A node that was attached and has no parent left knows where it was.
Knows(t, u, n) ==
    /\ n \in Born(u) /\ u.name[n] = t.name[n]
    /\ u.parent[n] = NoNode /\ u.cache[n] = NoCache
    /\ u.last[n] = Trail(t)[t.parent[n]]

Remembers(t, u) ==
    \A n \in Attached(t) \ {Root} : u.parent[n] = NoNode => Knows(t, u, n)

\* What a change of n, only, leaves as it was: all that is not below n.
LEMMA BesideStays ==
    ASSUME NEW t, Rooted(t), NEW u, Rooted(u), NEW n, Born(t) \subseteq Born(u),
           \A m \in Born(t) \ {n} : u.parent[m] = t.parent[m] /\ u.name[m] = t.name[m]
    PROVE  \A m \in Beside(t, n) : m \in Beside(u, n) /\ Trail(u)[m] = Trail(t)[m]
  <1> DEFINE S == Beside(t, n)
  <1>1. Attached(t) \subseteq Born(t)
    BY AttachedUp
  <1>2. S \in SUBSET Attached(t) /\ S \subseteq Born(u) /\ \A m \in S : m # n
    BY <1>1 DEF Beside, Avoids
  <1>3. \A m \in S : m = Root \/ t.parent[m] \in S
    BY BesideUp
  <1>4. \A m \in S : u.parent[m] = t.parent[m] /\ u.name[m] = t.name[m]
    BY <1>1, <1>2
  <1>5. \A m \in S : Trail(u)[m] = Trail(t)[m] /\ m \in Attached(u)
    <2> HIDE DEF S
    <2> QED
      BY <1>2, <1>3, <1>4, SameTrail
  <1>6. ASSUME NEW m \in S PROVE Avoids(u, m, n)
    <2>1. PICK T \in SUBSET (Born(t) \ {n}) : m \in T /\ \A e \in T : t.parent[e] \in T \cup {NoNode}
      BY DEF Beside, Avoids
    <2>2. T \in SUBSET (Born(u) \ {n}) /\ \A e \in T : u.parent[e] \in T \cup {NoNode}
      BY <2>1
    <2> QED
      BY <2>1, <2>2 DEF Avoids
  <1> QED
    BY <1>5, <1>6 DEF Beside

\* The directory a node is in is not below it.
LEMMA ParentIsBeside ==
    ASSUME NEW t, Rooted(t), NEW n \in Attached(t) \ {Root}
    PROVE  t.parent[n] \in Beside(t, n) /\ t.parent[n] \in Attached(t)
  <1>1. n \in Born(t) /\ t.parent[n] \in Attached(t) /\ t.parent[n] # NoNode
    BY AttachedUp, NodeAssumption DEF Born
  <1> QED
    BY <1>1, ParentNotBelow DEF Beside

LEMMA DetachIsSafe ==
    ASSUME NEW t, TreeInv(t), NEW n \in Attached(t) \ {Root}
    PROVE  /\ TreeInv(Detach(t, n)) /\ Detaches(t, Detach(t, n), n)
           /\ Knows(t, Detach(t, n), n)
           /\ \A m \in Attached(t) \ {n} :
                  Detach(t, n).parent[m] = t.parent[m]
           /\ \A m \in Beside(t, n) :
                  m \in Beside(Detach(t, n), n) /\ Trail(Detach(t, n))[m] = Trail(t)[m]
  <1> DEFINE X == Attached(t)
             u == Detach(t, n)
             p == t.parent[n]
  <1>1. Sound(t, X) /\ Complete(t, X) /\ Rooted(t) /\ t \in Trees /\ X \subseteq Born(t) /\ Born(t) \subseteq Node
    BY AttachedUp DEF TreeInv, Sound, Rooted, Born
  <1>2. Detaches(t, u, n) /\ Sound(u, X) /\ Complete(u, X)
    BY <1>1, DetachKeeps
  <1> HIDE DEF u
  <1>3. TreeInv(u)
    BY <1>2, Narrow
  <1>4. p \in Attached(t)
    BY <1>1, ParentIsBeside
  <1>5. PathOf(t)[p] = Trail(t)[p]
    BY <1>1, <1>4, PathIsTrail
  <1>6. /\ \A m \in Node : u.parent[m] = IF m = n THEN NoNode ELSE t.parent[m]
        /\ u.last[n] = Trail(t)[p]
    BY <1>1, <1>2, <1>5 DEF Detaches, Trees
  <1>7. Born(u) = Born(t)
    BY <1>2 DEF Born, Detaches
  <1>8. Knows(t, u, n)
    BY <1>1, <1>2, <1>6, <1>7 DEF Knows, Detaches
  <1>9. \A m \in Beside(t, n) : m \in Beside(u, n) /\ Trail(u)[m] = Trail(t)[m]
    <2>1. Rooted(u)
      BY <1>2 DEF Sound
    <2>2. \A m \in Born(t) \ {n} : u.parent[m] = t.parent[m] /\ u.name[m] = t.name[m]
      BY <1>1, <1>2, <1>6 DEF Detaches
    <2> QED
      BY <1>1, <1>7, <2>1, <2>2, BesideStays
  <1> QED
    BY <1>1, <1>2, <1>3, <1>6, <1>8, <1>9 DEF u

LEMMA UnlinkRemembers ==
    ASSUME NEW t, TreeInv(t), NEW n \in Attached(t) \ {Root}
    PROVE  Remembers(t, Detach(t, n))
  <1>1. \A m \in Attached(t) \ {Root} : t.parent[m] # NoNode
    BY AttachedUp, NodeAssumption DEF TreeInv, Sound, Born
  <1> QED
    BY <1>1, DetachIsSafe DEF Remembers

\* What a conflict leaves behind is remembered, too.
LEMMA AttachRemembers ==
    ASSUME NEW t, NEW X, NEW n, NEW d, MayAttach(t, X, n, d)
    PROVE  \A m \in Born(t) \ {n} :
               t.parent[m] # NoNode /\ Attach(t, n, d).parent[m] = NoNode =>
                   Knows(t, Attach(t, n, d), m) /\ t.parent[m] = d
  <1> DEFINE u == Attach(t, n, d)
             c == t.child[d][t.name[n]]
  <1>1. Sound(t, X) /\ Rooted(t) /\ d \in X /\ t.name[n] \in Name
        /\ Born(t) \subseteq Node
    <2>1. Sound(t, X) /\ n \in X /\ d \in Attached(t) /\ Attached(t) \subseteq X
      BY Narrow DEF MayAttach, Beside
    <2>2. Rooted(t) /\ X \subseteq Born(t) /\ Born(t) \subseteq Node
      BY <2>1 DEF Sound, Rooted, Born
    <2> QED
      BY <2>1, <2>2 DEF Rooted, Trees, Born
  <1>2. Attaches(t, u, n, d)
    BY AttachKeeps
  <1> HIDE DEF u
  <1>3. ASSUME NEW m \in Born(t) \ {n}, t.parent[m] # NoNode, u.parent[m] = NoNode
        PROVE  Knows(t, u, m) /\ t.parent[m] = d
    <2>1. m \in Node /\ d # NoNode
      BY <1>1, NodeAssumption DEF Sound
    <2>2. m = c
      BY <1>2, <1>3, <2>1 DEF Attaches
    <2>3. c # NoNode
      BY <2>1, <2>2, NodeAssumption
    <2>4. t.parent[c] = d
      BY <1>1, <2>3 DEF Sound
    <2> QED
      BY <1>2, <1>3, <2>1, <2>2, <2>3, <2>4 DEF Attaches, Knows, Born
  <1> QED
    BY <1>3 DEF u

\* A node that is made, before its parent is set.
Made(t, n, k, kind) == [t EXCEPT !.kind[n] = kind, !.name[n] = k]

\* It may be attached to d, and what is attached is as before.
Ready(t, u, X, n, d, k, kind) ==
    /\ u.parent = t.parent /\ u.child = t.child /\ u.last = t.last /\ u.cache = t.cache
    /\ \A m \in Node : u.kind[m] = IF m = n THEN kind ELSE t.kind[m]
    /\ \A m \in Node : u.name[m] = IF m = n THEN k ELSE t.name[m]
    /\ Born(u) = Born(t) \cup {n} /\ Rooted(u)
    /\ MayAttach(u, X, n, d) /\ (Complete(t, Attached(t)) => Complete(u, X \ {n}))
    /\ \A m \in Attached(t) : m \in Beside(u, n) /\ Trail(u)[m] = Trail(t)[m]

LEMMA MadeMayAttach ==
    ASSUME NEW t, Sound(t, Attached(t)), NEW n \in Unborn(t), NEW d \in Attached(t), IsDir(t, d),
           NEW k \in Name, NEW kind \in {"dir", "file", "symlink"}
    PROVE  Ready(t, Made(t, n, k, kind), Attached(t) \cup {n}, n, d, k, kind)
  <1> DEFINE u == Made(t, n, k, kind)
             X == Attached(t) \cup {n}
  <1>1. /\ Rooted(t) /\ t \in Trees /\ Born(t) \subseteq Node /\ n \in Node /\ n \notin Born(t)
        /\ Attached(t) \subseteq Born(t) /\ Sound(t, Attached(t))
        /\ t.parent[n] = NoNode /\ Empty(t, n) /\ t.cache[n] = NoCache
    BY AttachedUp DEF Sound, Rooted, Born, Unborn
  <1>2. u \in Trees /\ u.parent = t.parent /\ u.child = t.child /\ u.last = t.last /\ u.cache = t.cache
        /\ u.kind = [t.kind EXCEPT ![n] = kind] /\ u.name = [t.name EXCEPT ![n] = k]
    <2> DEFINE kinds == [t.kind EXCEPT ![n] = kind]
               names == [t.name EXCEPT ![n] = k]
    <2>1. kinds \in [Node -> Kinds] /\ names \in [Node -> Name]
      BY <1>1 DEF Trees, Kinds
    <2>2. u = [t EXCEPT !.kind = kinds, !.name = names]
      BY <1>1 DEF Trees, Made
    <2> HIDE DEF kinds, names, u
    <2>3. u \in Trees /\ u.parent = t.parent /\ u.child = t.child /\ u.last = t.last /\ u.cache = t.cache
          /\ u.kind = kinds /\ u.name = names
      BY <1>1, <2>1, <2>2 DEF Trees
    <2> QED
      BY <2>3 DEF kinds, names
  <1> HIDE DEF u
  <1>3. /\ \A m \in Node : u.kind[m] = IF m = n THEN kind ELSE t.kind[m]
        /\ \A m \in Node : u.name[m] = IF m = n THEN k ELSE t.name[m]
    BY <1>1, <1>2 DEF Trees
  <1>4. Born(u) = Born(t) \cup {n} /\ Unborn(u) = Unborn(t) \ {n}
    BY <1>1, <1>3 DEF Born, Unborn
  <1>5. Rooted(u)
    <2>1. Acyclic(u)
      <3> SUFFICES ASSUME NEW S \in SUBSET (Born(t) \cup {n}), S # {}, \A m \in S : t.parent[m] \in S
                   PROVE  FALSE
        BY <1>2, <1>4 DEF Acyclic
      <3>1. n \notin S
        BY <1>1, NodeAssumption
      <3> QED
        BY <1>1, <3>1 DEF Rooted, Acyclic
    <2>2. \A m \in Born(u) : u.parent[m] \in Born(u) \cup {NoNode}
      BY <1>1, <1>2, <1>4 DEF Rooted
    <2> QED
      BY <1>1, <1>2, <1>4, <2>1, <2>2 DEF Rooted
  <1>6. Sound(u, X)
    <2>1. Root \in X /\ X \subseteq Born(u) /\ IsDir(u, Root)
      BY <1>1, <1>3, <1>4 DEF Sound, IsDir
    <2>2. \A m \in Unborn(u) : u.parent[m] = NoNode /\ Empty(u, m) /\ u.cache[m] = NoCache
      BY <1>1, <1>2, <1>4 DEF Sound, Empty
    <2>3. \A m \in Born(u) \ X : u.parent[m] \notin X
      BY <1>1, <1>2, <1>4, NodeAssumption DEF Sound, Rooted
    <2>4. ASSUME NEW e \in X, NEW l \in Name, u.child[e][l] # NoNode
          PROVE  u.child[e][l] \in X /\ u.parent[u.child[e][l]] = e /\ u.name[u.child[e][l]] = l
      <3>1. e \in Attached(t)
        BY <1>1, <1>2, <2>4 DEF Empty
      <3>2. t.child[e][l] \in Attached(t) /\ t.parent[t.child[e][l]] = e /\ t.name[t.child[e][l]] = l
        BY <1>1, <1>2, <2>4, <3>1 DEF Sound
      <3> QED
        BY <1>1, <1>2, <1>3, <3>2
    <2>5. \A m \in X : u.parent[m] # NoNode => IsDir(u, u.parent[m])
      <3> SUFFICES ASSUME NEW m \in X, t.parent[m] # NoNode PROVE IsDir(u, t.parent[m])
        BY <1>2
      <3>1. m \in Attached(t) /\ IsDir(t, t.parent[m]) /\ t.parent[m] \in Born(t)
        BY <1>1 DEF Sound, Rooted
      <3> QED
        BY <1>1, <1>3, <3>1 DEF IsDir
    <2>6. \A m \in X : CacheFits(u, m)
      BY <1>1, <1>2, <1>3 DEF Sound, CacheFits, NoCache
    <2> QED
      BY <1>5, <2>1, <2>2, <2>3, <2>4, <2>5, <2>6 DEF Sound
  <1>7. \A m \in Attached(t) : m \in Beside(u, n) /\ Trail(u)[m] = Trail(t)[m]
    <2>1. \A m \in Attached(t) : m \in Beside(t, n)
      <3>1. Born(t) \in SUBSET (Born(t) \ {n}) /\ \A e \in Born(t) : t.parent[e] \in Born(t) \cup {NoNode}
        BY <1>1 DEF Rooted
      <3> QED
        BY <1>1, <3>1 DEF Beside, Avoids
    <2>2. \A m \in Born(t) \ {n} : u.parent[m] = t.parent[m] /\ u.name[m] = t.name[m]
      BY <1>1, <1>2, <1>3
    <2> QED
      BY <1>1, <1>4, <1>5, <2>1, <2>2, BesideStays
  <1>8. MayAttach(u, X, n, d)
    <2>1. IsDir(u, d)
      BY <1>1, <1>3 DEF IsDir
    <2>2. \A e \in X, l \in Name : u.child[e][l] # n
      <3> SUFFICES ASSUME NEW e \in X, NEW l \in Name, t.child[e][l] = n PROVE FALSE
        BY <1>2
      <3>1. e \in Attached(t)
        BY <1>1, NodeAssumption DEF Empty
      <3> QED
        BY <1>1, <3>1, NodeAssumption DEF Sound
    <2>3. n # Root
      BY <1>1 DEF Rooted
    <2> QED
      BY <1>6, <1>7, <2>1, <2>2, <2>3 DEF MayAttach
  <1>9. Complete(t, Attached(t)) => Complete(u, X \ {n})
    BY <1>1, <1>2, <1>3 DEF Complete
  <1> QED
    BY <1>2, <1>3, <1>4, <1>5, <1>7, <1>8, <1>9 DEF u, Ready

LEMMA CreateIsSafe ==
    ASSUME NEW t, TreeInv(t), Unborn(t) # {}, NEW d \in Attached(t), IsDir(t, d),
           NEW k \in Name, NEW kind \in {"dir", "file", "symlink"}
    PROVE  TreeInv(Create(t, d, k, kind)) /\ Remembers(t, Create(t, d, k, kind))
  <1> DEFINE n == Fresh(t)
             v == Made(t, n, k, kind)
             u == Create(t, d, k, kind)
             X == Attached(t) \cup {n}
  <1>1. u = Attach(v, n, d)
    BY DEF Create, Made
  <1>2. n \in Unborn(t)
    BY DEF Fresh
  <1>3. Rooted(t) /\ Attached(t) \subseteq Born(t) /\ Born(t) \subseteq Node
    BY AttachedUp DEF TreeInv, Sound, Born
  <1> HIDE DEF n
  <1>4. /\ MayAttach(v, X, n, d) /\ Complete(v, X \ {n}) /\ v.parent = t.parent
        /\ \A m \in Node : v.name[m] = IF m = n THEN k ELSE t.name[m]
        /\ \A m \in Attached(t) : m \in Beside(v, n) /\ Trail(v)[m] = Trail(t)[m]
    <2>1. Ready(t, v, X, n, d, k, kind)
      BY <1>2, MadeMayAttach DEF TreeInv
    <2> QED
      BY <2>1 DEF Ready, TreeInv
  <1> HIDE DEF v, u
  <1>5. TreeInv(u)
    BY <1>1, <1>4, AttachKeeps, Narrow
  <1>6. ASSUME NEW m \in Attached(t) \ {Root}, u.parent[m] = NoNode PROVE Knows(t, u, m)
    <2>1. m \in Born(v) /\ m # n /\ m \in Node /\ t.parent[m] \in Attached(t) /\ t.parent[m] # NoNode
      BY <1>2, <1>3, <1>4, AttachedUp, NodeAssumption DEF Beside, Unborn, Attached
    <2>2. Knows(v, u, m)
      BY <1>1, <1>4, <1>6, <2>1, AttachRemembers
    <2> QED
      BY <1>4, <2>1, <2>2 DEF Knows
  <1> QED
    BY <1>5, <1>6 DEF Remembers, u

\* A node that no list has may get another name.
Named(t, n, k) == [t EXCEPT !.name[n] = k]

LEMMA NamedKeeps ==
    ASSUME NEW t, NEW X, Sound(t, X), NEW n \in Born(t), NEW k \in Name,
           \A e \in X, l \in Name : t.child[e][l] # n, n \in X => t.cache[n] = NoCache
    PROVE  LET u == Named(t, n, k)
           IN  /\ u.kind = t.kind /\ u.parent = t.parent /\ u.child = t.child
               /\ u.last = t.last /\ u.cache = t.cache
               /\ \A m \in Node : u.name[m] = IF m = n THEN k ELSE t.name[m]
               /\ Sound(u, X) /\ (Complete(t, X \ {n}) => Complete(u, X \ {n}))
  <1> DEFINE u == Named(t, n, k)
  <1>1. /\ Rooted(t) /\ t \in Trees /\ Born(t) \subseteq Node /\ X \subseteq Born(t) /\ n \in Node
    BY DEF Sound, Rooted, Born
  <1>2. u \in Trees /\ u.kind = t.kind /\ u.parent = t.parent /\ u.child = t.child /\ u.last = t.last
        /\ u.cache = t.cache /\ u.name = [t.name EXCEPT ![n] = k]
    <2> DEFINE names == [t.name EXCEPT ![n] = k]
    <2>1. names \in [Node -> Name]
      BY <1>1 DEF Trees
    <2>2. u = [t EXCEPT !.name = names]
      BY <1>1 DEF Trees, Named
    <2> HIDE DEF names, u
    <2>3. u \in Trees /\ u.kind = t.kind /\ u.parent = t.parent /\ u.child = t.child
          /\ u.last = t.last /\ u.cache = t.cache /\ u.name = names
      BY <1>1, <2>1, <2>2 DEF Trees
    <2> QED
      BY <2>3 DEF names
  <1> HIDE DEF u
  <1>3. \A m \in Node : u.name[m] = IF m = n THEN k ELSE t.name[m]
    BY <1>1, <1>2 DEF Trees
  <1>4. Born(u) = Born(t) /\ Unborn(u) = Unborn(t)
    BY <1>2 DEF Born, Unborn
  <1>5. Rooted(u)
    BY <1>1, <1>2, <1>4 DEF Rooted, Acyclic
  <1>6. Sound(u, X)
    <2>1. ASSUME NEW e \in X, NEW l \in Name, u.child[e][l] # NoNode
          PROVE  u.child[e][l] \in X /\ u.parent[u.child[e][l]] = e /\ u.name[u.child[e][l]] = l
      <3>1. t.child[e][l] \in X /\ t.parent[t.child[e][l]] = e /\ t.name[t.child[e][l]] = l
            /\ t.child[e][l] # n
        BY <1>2, <2>1 DEF Sound
      <3> QED
        BY <1>1, <1>2, <1>3, <3>1
    <2>2. \A m \in X : CacheFits(u, m)
      BY <1>1, <1>2, <1>3 DEF Sound, CacheFits, NoCache
    <2> QED
      BY <1>2, <1>4, <1>5, <2>1, <2>2 DEF Sound, IsDir, Empty
  <1>7. Complete(t, X \ {n}) => Complete(u, X \ {n})
    BY <1>1, <1>2, <1>3 DEF Complete
  <1> QED
    BY <1>2, <1>3, <1>6, <1>7 DEF u

\* A node that is renamed, before it is back where it was.
Renaming(t, n, k) == Named(Detach(t, n), n, k)

RenameReady(t, u, n, k) ==
    /\ u.kind = t.kind /\ \A m \in Node \ {n} : u.last[m] = t.last[m]
    /\ \A m \in Node : u.parent[m] = IF m = n THEN NoNode ELSE t.parent[m]
    /\ \A m \in Node : u.name[m] = IF m = n THEN k ELSE t.name[m]
    /\ \A e \in Node, l \in Name :
           u.child[e][l] = IF e = t.parent[n] /\ l = t.name[n] THEN NoNode ELSE t.child[e][l]
    /\ Born(u) = Born(t)
    /\ MayAttach(u, Attached(t), n, t.parent[n])
    /\ Complete(t, Attached(t)) => Complete(u, Attached(t) \ {n})
    /\ \A m \in Beside(t, n) : m \in Beside(u, n) /\ Trail(u)[m] = Trail(t)[m]

LEMMA RenamingMayAttach ==
    ASSUME NEW t, Sound(t, Attached(t)), NEW n \in Attached(t) \ {Root}, NEW k \in Name
    PROVE  RenameReady(t, Renaming(t, n, k), n, k)
  <1> DEFINE X == Attached(t)
             v == Detach(t, n)
             u == Named(v, n, k)
             p == t.parent[n]
  <1>1. Sound(t, X) /\ Rooted(t) /\ t \in Trees /\ X \subseteq Born(t) /\ Born(t) \subseteq Node
    BY AttachedUp DEF Sound, Rooted, Born
  <1>2. Detaches(t, v, n) /\ Sound(v, X) /\ (Complete(t, X) => Complete(v, X))
    BY <1>1, DetachKeeps
  <1> HIDE DEF v
  <1>3. p \in Beside(t, n) /\ p \in X
    BY <1>1, ParentIsBeside
  <1>4. \A m \in Node : v.parent[m] = IF m = n THEN NoNode ELSE t.parent[m]
    BY <1>1, <1>2 DEF Detaches, Trees
  <1>5. Born(v) = Born(t) /\ v.cache[n] = NoCache /\ v.kind = t.kind /\ v.name = t.name
    BY <1>2 DEF Born, Detaches
  <1>6. \A e \in X, l \in Name : v.child[e][l] # n
    <2> SUFFICES ASSUME NEW e \in X, NEW l \in Name, v.child[e][l] = n PROVE FALSE
      OBVIOUS
    <2>1. v.child[e][l] # NoNode /\ NoNode \notin X
      BY <1>1, NodeAssumption
    <2>2. v.parent[n] = e
      BY <1>2, <2>1 DEF Sound
    <2> QED
      BY <1>1, <1>4, <2>1, <2>2
  <1>7. /\ u.kind = v.kind /\ u.parent = v.parent /\ u.child = v.child
        /\ u.last = v.last /\ u.cache = v.cache
        /\ \A m \in Node : u.name[m] = IF m = n THEN k ELSE v.name[m]
        /\ Sound(u, X) /\ (Complete(v, X \ {n}) => Complete(u, X \ {n}))
    BY <1>1, <1>2, <1>5, <1>6, NamedKeeps
  <1> HIDE DEF u
  <1>8. Complete(t, X) => Complete(u, X \ {n})
    BY <1>2, <1>7 DEF Complete
  <1>9. Born(u) = Born(t)
    BY <1>5, <1>7 DEF Born
  <1>10. \A m \in Beside(t, n) : m \in Beside(u, n) /\ Trail(u)[m] = Trail(t)[m]
    <2>1. Rooted(u)
      BY <1>7 DEF Sound
    <2>2. \A m \in Born(t) \ {n} : u.parent[m] = t.parent[m] /\ u.name[m] = t.name[m]
      BY <1>1, <1>4, <1>5, <1>7
    <2> QED
      BY <1>1, <1>9, <2>1, <2>2, BesideStays
  <1>11. MayAttach(u, X, n, p)
    <2>1. t.parent[n] # NoNode
      BY <1>1, <1>3, NodeAssumption
    <2>2. IsDir(u, p)
      BY <1>1, <1>5, <1>7, <2>1 DEF Sound, IsDir
    <2> QED
      BY <1>3, <1>6, <1>7, <1>10, <2>2 DEF MayAttach
  <1>12. \A e \in Node, l \in Name :
             u.child[e][l] = IF e = p /\ l = t.name[n] THEN NoNode ELSE t.child[e][l]
    BY <1>2, <1>7 DEF Detaches
  <1>13. \A m \in Node \ {n} : u.last[m] = t.last[m]
    BY <1>1, <1>2, <1>7 DEF Detaches, Trees
  <1> QED
    BY <1>4, <1>5, <1>7, <1>8, <1>9, <1>10, <1>11, <1>12, <1>13 DEF RenameReady, Renaming, u, v

LEMMA RenameIsSafe ==
    ASSUME NEW t, TreeInv(t), NEW n \in Born(t) \ {Root}, NEW k \in Name
    PROVE  TreeInv(Rename(t, n, k)) /\ Remembers(t, Rename(t, n, k))
  <1>1. Rooted(t) /\ Sound(t, Attached(t)) /\ Complete(t, Attached(t)) /\ Attached(t) \subseteq Born(t)
        /\ Born(t) \subseteq Node
    BY AttachedUp DEF TreeInv, Sound, Born
  <1>2. \A m \in Attached(t) \ {Root} : t.parent[m] # NoNode /\ t.parent[m] \in Attached(t)
    BY <1>1, AttachedUp, NodeAssumption
  <1>3. CASE k = t.name[n]
    <2>1. Rename(t, n, k) = t
      BY <1>3 DEF Rename
    <2> QED
      BY <1>2, <2>1 DEF Remembers
  <1>4. CASE k # t.name[n] /\ Detached(t, n)
    <2> DEFINE u == Named(t, n, k)
    <2>1. Rename(t, n, k) = u
      BY <1>4 DEF Rename, Named
    <2>2. n \notin Attached(t)
      BY <1>4 DEF Attached
    <2>3. \A e \in Attached(t), l \in Name : t.child[e][l] # n
      BY <1>1, <2>2, NodeAssumption DEF Sound
    <2>4. u.kind = t.kind /\ u.parent = t.parent
          /\ Sound(u, Attached(t)) /\ (Complete(t, Attached(t) \ {n}) => Complete(u, Attached(t) \ {n}))
      BY <1>1, <2>2, <2>3, NamedKeeps
    <2> HIDE DEF u
    <2>5. Complete(u, Attached(t))
      BY <1>1, <2>2, <2>4 DEF Complete
    <2>6. TreeInv(u)
      BY <2>4, <2>5, Narrow
    <2> QED
      BY <1>2, <2>1, <2>4, <2>6 DEF Remembers
  <1>5. CASE k # t.name[n] /\ ~ Detached(t, n)
    <2> DEFINE v == Renaming(t, n, k)
               p == t.parent[n]
               u == Attach(v, n, p)
    <2>1. Rename(t, n, k) = u
      BY <1>5 DEF Rename, Renaming, Named
    <2>2. n \in Attached(t) /\ n # Root /\ p \in Beside(t, n)
      BY <1>1, <1>5, ParentIsBeside DEF Attached
    <2>3. RenameReady(t, v, n, k)
      BY <2>2, RenamingMayAttach DEF TreeInv
    <2> HIDE DEF v
    <2>4. MayAttach(v, Attached(t), n, p) /\ Complete(v, Attached(t) \ {n})
      BY <2>3 DEF RenameReady, TreeInv
    <2>5. TreeInv(u) /\ Attaches(v, u, n, p)
      BY <2>4, AttachKeeps, Narrow
    <2>6. ASSUME NEW m \in Attached(t) \ {Root}, u.parent[m] = NoNode PROVE Knows(t, u, m)
      <3>1. m # n
        BY <1>1, <1>2, <2>2, <2>5, <2>6 DEF Attaches
      <3>2. m \in Born(v) /\ v.parent[m] = t.parent[m] /\ v.name[m] = t.name[m] /\ v.parent[m] # NoNode
        BY <1>1, <1>2, <2>3, <3>1 DEF RenameReady
      <3>3. Knows(v, u, m) /\ v.parent[m] = p
        BY <2>4, <2>6, <3>1, <3>2, AttachRemembers
      <3>4. Trail(v)[p] = Trail(t)[p]
        BY <2>2, <2>3 DEF RenameReady
      <3> QED
        BY <3>2, <3>3, <3>4 DEF Knows
    <2> QED
      BY <2>1, <2>5, <2>6 DEF Remembers
  <1> QED
    BY <1>3, <1>4, <1>5

\* A node that is moved, before its parent is set.
Moving(t, n) == WithoutItem(t, t.parent[n], t.name[n])

MoveReady(t, u, n, d) ==
    /\ u.kind = t.kind /\ u.name = t.name /\ u.parent = t.parent /\ u.last = t.last
    /\ \A e \in Node, l \in Name :
           u.child[e][l] = IF e = t.parent[n] /\ l = t.name[n] THEN NoNode ELSE t.child[e][l]
    /\ MayAttach(u, Attached(t), n, d)
    /\ Complete(t, Attached(t)) => Complete(u, Attached(t) \ {n})
    /\ \A m \in Attached(t) : Trail(u)[m] = Trail(t)[m]
    /\ Born(u) = Born(t) /\ Attached(u) = Attached(t) /\ Beside(u, n) = Beside(t, n)

LEMMA MovingMayAttach ==
    ASSUME NEW t, Sound(t, Attached(t)), NEW n \in Attached(t) \ {Root},
           NEW d \in Beside(t, n), IsDir(t, d)
    PROVE  MoveReady(t, Moving(t, n), n, d)
  <1> DEFINE X == Attached(t)
             u == Moving(t, n)
             p == t.parent[n]
             k == t.name[n]
  <1>1. Sound(t, X) /\ Rooted(t) /\ t \in Trees /\ X \subseteq Born(t) /\ Born(t) \subseteq Node
    BY AttachedUp DEF Sound, Rooted, Born
  <1>2. p \in X /\ p \in Node /\ p # NoNode /\ k \in Name /\ n \in Born(t) /\ n \in Node /\ n # NoNode
    BY <1>1, ParentIsBeside, NodeAssumption DEF Trees
  <1>3. /\ u.kind = t.kind /\ u.name = t.name /\ u.parent = t.parent /\ u.last = t.last
        /\ \A e \in Node, l \in Name :
               u.child[e][l] = IF e = p /\ l = k THEN NoNode ELSE t.child[e][l]
        /\ Sound(u, X)
    <2> DEFINE w == WithoutItem(t, p, k)
    <2>1. u = w
      BY DEF Moving
    <2>2. Sound(t, X)
      BY <1>1
    <2> HIDE DEF u, p, k, X
    <2>3. /\ w.kind = t.kind /\ w.name = t.name /\ w.parent = t.parent /\ w.last = t.last
          /\ \A e \in Node, l \in Name :
                 w.child[e][l] = IF e = p /\ l = k THEN NoNode ELSE t.child[e][l]
          /\ Sound(w, X)
      BY <1>2, <2>2, UnlistKeeps
    <2> HIDE DEF w
    <2> QED
      BY <2>1, <2>3
  <1> HIDE DEF u
  <1>4. Born(u) = Born(t) /\ Attached(u) = Attached(t) /\ Beside(u, n) = Beside(t, n)
    BY <1>3, AvoidsByParents DEF Beside
  <1>5. \A e \in X, l \in Name : u.child[e][l] # n
    <2> SUFFICES ASSUME NEW e \in X, NEW l \in Name, u.child[e][l] = n PROVE FALSE
      OBVIOUS
    <2>1. ~ (e = p /\ l = k) /\ t.child[e][l] = n
      BY <1>1, <1>2, <1>3
    <2>2. t.parent[n] = e /\ t.name[n] = l
      BY <1>1, <1>2, <2>1 DEF Sound
    <2> QED
      BY <2>1, <2>2
  <1>6. Complete(t, X) => Complete(u, X \ {n})
    <2> SUFFICES ASSUME Complete(t, X), NEW m \in X \ {n}, t.parent[m] # NoNode
                 PROVE  u.child[t.parent[m]][t.name[m]] = m
      BY <1>3 DEF Complete
    <2>1. t.child[t.parent[m]][t.name[m]] = m /\ t.child[p][k] = n
      BY <1>1, <1>2 DEF Complete
    <2>2. t.parent[m] \in Node /\ t.name[m] \in Name
      BY <1>1 DEF Trees
    <2> QED
      BY <1>3, <2>1, <2>2
  <1>7. MayAttach(u, X, n, d)
    BY <1>3, <1>4, <1>5 DEF MayAttach, IsDir
  <1>8. \A m \in X : Trail(u)[m] = Trail(t)[m]
    <2>1. \A m \in X : m = Root \/ t.parent[m] \in X
      BY <1>1, AttachedUp
    <2>2. Rooted(u) /\ X \subseteq Born(u)
      BY <1>1, <1>3, <1>4 DEF Sound
    <2>3. \A m \in X : u.parent[m] = t.parent[m] /\ u.name[m] = t.name[m]
      BY <1>3
    <2> QED
      BY <1>1, <2>1, <2>2, <2>3, SameTrail
  <1> QED
    BY <1>3, <1>4, <1>6, <1>7, <1>8 DEF MoveReady, u

LEMMA MoveIsSafe ==
    ASSUME NEW t, TreeInv(t), NEW n \in Attached(t) \ {Root},
           NEW d \in Beside(t, n), IsDir(t, d)
    PROVE  TreeInv(SetParent(t, n, d)) /\ Remembers(t, SetParent(t, n, d))
  <1> DEFINE v == Moving(t, n)
             u == Attach(v, n, d)
  <1>1. Rooted(t) /\ Attached(t) \subseteq Born(t) /\ Born(t) \subseteq Node
    BY AttachedUp DEF TreeInv, Sound, Born
  <1>2. SetParent(t, n, d) = u
    BY DEF SetParent, Moving, Unlist, WithoutItem, Attached
  <1>3. MoveReady(t, v, n, d)
    BY MovingMayAttach DEF TreeInv
  <1> HIDE DEF v
  <1>4. MayAttach(v, Attached(t), n, d) /\ Complete(v, Attached(t) \ {n})
    BY <1>3 DEF MoveReady, TreeInv
  <1>5. TreeInv(u) /\ Attaches(v, u, n, d)
    BY <1>4, AttachKeeps, Narrow
  <1>6. ASSUME NEW m \in Attached(t) \ {Root}, u.parent[m] = NoNode PROVE Knows(t, u, m)
    <2>1. m # n /\ t.parent[m] # NoNode /\ d \in Attached(t) /\ m \in Born(v)
      BY <1>1, <1>3, <1>5, <1>6, AttachedUp, NodeAssumption DEF Attaches, Beside, MoveReady
    <2>2. v.parent[m] = t.parent[m] /\ v.name[m] = t.name[m]
      BY <1>3 DEF MoveReady
    <2>3. Knows(v, u, m) /\ v.parent[m] = d
      BY <1>4, <1>6, <2>1, <2>2, AttachRemembers
    <2>4. Trail(v)[d] = Trail(t)[d]
      BY <1>3, <2>1 DEF MoveReady
    <2> QED
      BY <2>2, <2>3, <2>4 DEF Knows
  <1> QED
    BY <1>2, <1>5, <1>6 DEF Remembers

\* What is attached after n was taken off is what was not below n.
Shrunk(t, u, n) ==
    /\ TreeInv(u) /\ u.kind = t.kind /\ Attached(u) = Beside(t, n)
    /\ \A m \in Attached(u) :
           /\ Trail(u)[m] = Trail(t)[m]
           /\ u.parent[m] = t.parent[m] /\ u.name[m] = t.name[m]

LEMMA DetachShrinks ==
    ASSUME NEW t, TreeInv(t), NEW n \in Attached(t) \ {Root}
    PROVE  Shrunk(t, Detach(t, n), n)
  <1> DEFINE u == Detach(t, n)
             S == {m \in Born(t) : ~ Avoids(t, m, n)}
  <1>1. Rooted(t) /\ t \in Trees /\ Attached(t) \subseteq Born(t) /\ Born(t) \subseteq Node
    BY AttachedUp DEF TreeInv, Sound, Rooted, Born
  <1>2. /\ TreeInv(u) /\ Detaches(t, u, n)
        /\ \A m \in Beside(t, n) : m \in Beside(u, n) /\ Trail(u)[m] = Trail(t)[m]
    BY DetachIsSafe
  <1> HIDE DEF u
  <1>3. \A m \in Node : u.parent[m] = IF m = n THEN NoNode ELSE t.parent[m]
    BY <1>1, <1>2 DEF Detaches, Trees
  <1>4. Born(u) = Born(t) /\ u.kind = t.kind /\ u.name = t.name
    BY <1>2 DEF Born, Detaches
  <1>5. Root \notin S
    <2>1. {Root} \in SUBSET (Born(t) \ {n}) /\ \A e \in {Root} : t.parent[e] \in {Root} \cup {NoNode}
      BY <1>1 DEF Rooted
    <2> QED
      BY <2>1 DEF Avoids
  <1>6. \A m \in S : u.parent[m] \in S \cup {NoNode}
    <2> SUFFICES ASSUME NEW m \in S, m # n PROVE t.parent[m] \in S \cup {NoNode}
      BY <1>1, <1>3
    <2> QED
      BY <1>1, AvoidsUp DEF Rooted
  <1>7. ASSUME NEW m \in Attached(u) PROVE m \in Beside(t, n)
    <2>1. m \in Born(t)
      BY <1>4 DEF Attached
    <2>2. m \notin S
      <3> SUFFICES ASSUME m \in S PROVE Detached(u, m)
        BY DEF Attached
      <3>1. S \in SUBSET (Born(u) \ {Root})
        BY <1>4, <1>5
      <3> HIDE DEF S
      <3> QED
        BY <1>6, <3>1 DEF Detached, Avoids
    <2>3. m \in Attached(t)
      <3> SUFFICES ASSUME Detached(t, m) PROVE Detached(u, m)
        BY <2>1 DEF Attached
      <3>1. PICK R \in SUBSET (Born(t) \ {Root}) : m \in R /\ \A e \in R : t.parent[e] \in R \cup {NoNode}
        BY DEF Detached, Avoids
      <3>2. R \in SUBSET (Born(u) \ {Root}) /\ \A e \in R : u.parent[e] \in R \cup {NoNode}
        BY <1>1, <1>3, <1>4, <3>1
      <3> QED
        BY <3>1, <3>2 DEF Detached, Avoids
    <2> QED
      BY <2>1, <2>2, <2>3 DEF Beside
  <1>8. Attached(u) = Beside(t, n)
    BY <1>2, <1>7 DEF Beside
  <1>9. \A m \in Attached(u) : m # n /\ m \in Node
    BY <1>1, <1>8 DEF Beside, Avoids
  <1> QED
    BY <1>2, <1>3, <1>4, <1>8, <1>9 DEF Shrunk, u

\* An empty directory has nothing below it.
LEMMA NothingInEmpty ==
    ASSUME NEW t, TreeInv(t), NEW n \in Attached(t), Empty(t, n)
    PROVE  Attached(t) \ {n} \subseteq Beside(t, n)
  <1> DEFINE S == Attached(t) \ {n}
  <1>1. Rooted(t) /\ t \in Trees /\ Attached(t) \subseteq Born(t) /\ Born(t) \subseteq Node
        /\ Complete(t, Attached(t))
    BY AttachedUp DEF TreeInv, Sound, Rooted, Born
  <1>2. ASSUME NEW m \in S PROVE t.parent[m] \in S \cup {NoNode}
    <2> SUFFICES ASSUME t.parent[m] # NoNode PROVE t.parent[m] \in S
      OBVIOUS
    <2>1. t.parent[m] \in Attached(t)
      BY <1>1, AttachedUp DEF Rooted
    <2>2. t.child[t.parent[m]][t.name[m]] = m /\ t.name[m] \in Name /\ m # NoNode
      BY <1>1, NodeAssumption DEF Complete, Trees
    <2> QED
      BY <2>1, <2>2 DEF Empty
  <1>3. S \in SUBSET (Born(t) \ {n})
    BY <1>1
  <1> HIDE DEF S
  <1>4. \A m \in S : Avoids(t, m, n)
    BY <1>2, <1>3 DEF Avoids
  <1> QED
    BY <1>4 DEF Beside, S

\* When the directory of what was taken off is empty then, and goes, too, that is
\* as if it had gone with it.
LEMMA ShrunkUp ==
    ASSUME NEW t, TreeInv(t), NEW top \in Attached(t) \ {Root}, NEW v, Shrunk(t, v, top),
           t.parent[top] # Root, Empty(v, t.parent[top])
    PROVE  Shrunk(t, Detach(v, t.parent[top]), t.parent[top])
  <1> DEFINE at == t.parent[top]
             u == Detach(v, at)
  <1>1. TreeInv(v) /\ at \in Attached(v) \ {Root} /\ at \in Attached(t)
    BY ParentIsBeside DEF Shrunk, TreeInv, Sound
  <1>2. Rooted(v) /\ Rooted(t) /\ v \in Trees /\ Attached(v) \subseteq Born(v) /\ Born(v) \subseteq Node
        /\ Attached(t) \subseteq Born(t)
    BY <1>1, AttachedUp DEF TreeInv, Sound, Rooted, Born
  <1>4. TreeInv(u)
    BY <1>1, DetachIsSafe
  <1>5. Shrunk(v, u, at)
    BY <1>1, DetachShrinks
  <1> HIDE DEF u
  <1>7. \A m \in Attached(v) : /\ m \in Attached(t) /\ Trail(v)[m] = Trail(t)[m]
                               /\ v.parent[m] = t.parent[m] /\ v.name[m] = t.name[m]
    BY DEF Shrunk, Beside
  <1>10. Shrunk(t, u, at)
    <2>1. Attached(u) = Attached(v) \ {at}
      <3>1. at \notin Beside(v, at) /\ Beside(v, at) \subseteq Attached(v)
        BY DEF Beside, Avoids
      <3> QED
        BY <1>1, <1>5, <3>1, NothingInEmpty DEF Shrunk
    <2>2. Attached(u) = Beside(t, at)
      <3>2. ASSUME NEW m \in Beside(t, at) PROVE m \in Attached(u)
        <4>1. PICK T \in SUBSET (Born(t) \ {at}) : m \in T /\ \A x \in T : t.parent[x] \in T \cup {NoNode}
          BY DEF Beside, Avoids
        <4>2. top \notin T
          BY <1>1, <1>2, <4>1, AttachedUp, NodeAssumption DEF Born
        <4>3. Avoids(t, m, top)
          BY <4>1, <4>2 DEF Avoids
        <4>4. m \in Attached(v) /\ m # at
          BY <4>1, <4>3 DEF Shrunk, Beside
        <4> QED
          BY <2>1, <4>4
      <3>3. ASSUME NEW m \in Attached(u) PROVE m \in Beside(t, at)
        <4> DEFINE T == Attached(u)
        <4>1. T \in SUBSET (Born(t) \ {at})
          BY <1>2, <1>7, <2>1
        <4>2. \A x \in T : t.parent[x] \in T \cup {NoNode}
          <5> SUFFICES ASSUME NEW x \in T, t.parent[x] # NoNode PROVE t.parent[x] \in T
            OBVIOUS
          <5>1. x # Root /\ x \in Attached(v)
            BY <1>2, <2>1 DEF Rooted
          <5>2. u.parent[x] = t.parent[x]
            BY <1>5, <1>7, <5>1 DEF Shrunk
          <5>3. x \in Born(u) /\ Rooted(u)
            BY <1>4 DEF Attached, TreeInv, Sound
          <5> QED
            BY <5>1, <5>2, <5>3, AttachedUp
        <4>3. Avoids(t, m, at)
          <5> HIDE DEF T
          <5>1. m \in T
            BY DEF T
          <5> QED
            BY <4>1, <4>2, <5>1 DEF Avoids
        <4> QED
          BY <1>7, <2>1, <4>3 DEF Beside
      <3> QED
        BY <3>2, <3>3
    <2>3. u.kind = t.kind
      BY <1>5 DEF Shrunk
    <2>4. \A m \in Attached(u) : /\ Trail(u)[m] = Trail(t)[m]
                                 /\ u.parent[m] = t.parent[m] /\ u.name[m] = t.name[m]
      BY <1>5, <1>7, <2>1 DEF Shrunk
    <2> QED
      BY <1>4, <2>2, <2>3, <2>4 DEF Shrunk
  <1> QED
    BY <1>10 DEF u

\* How far pruning from n has come.
Pruning(t, n, e) ==
    /\ e \in Trees \X Node
    /\ TreeInv(e[1]) /\ e[2] \in Attached(e[1])
    /\ \A m \in Attached(t) \ Attached(e[1]) : Knows(t, e[1], m)
    /\ \/ e = <<t, n>>
       \/ \E top \in Attached(t) \ {Root} : e[2] = t.parent[top] /\ Shrunk(t, e[1], top)

PruneStep(e) ==
    IF e[2] = Root \/ ~ Empty(e[1], e[2]) THEN e
    ELSE <<Detach(e[1], e[2]), e[1].parent[e[2]]>>

LEMMA PruneStepKeeps ==
    ASSUME NEW t, TreeInv(t), NEW n \in Attached(t), NEW e, Pruning(t, n, e)
    PROVE  Pruning(t, n, PruneStep(e))
  <1> DEFINE v == e[1]
             at == e[2]
             p == v.parent[at]
             u == Detach(v, at)
  <1> SUFFICES ASSUME at # Root, Empty(v, at) PROVE Pruning(t, n, <<u, p>>)
    BY DEF PruneStep
  <1>1. /\ TreeInv(v) /\ at \in Attached(v) \ {Root} /\ e = <<v, at>>
        /\ \A m \in Attached(t) \ Attached(v) : Knows(t, v, m)
        /\ \/ v = t
           \/ \E top \in Attached(t) \ {Root} : at = t.parent[top] /\ Shrunk(t, v, top)
    BY DEF Pruning
  <1>2. Rooted(v) /\ Rooted(t) /\ v \in Trees /\ Attached(v) \subseteq Born(v) /\ Born(v) \subseteq Node
        /\ Attached(t) \subseteq Born(t)
    BY <1>1, AttachedUp DEF TreeInv, Sound, Rooted, Born
  <1> HIDE DEF v, at
  <1>3. p \in Beside(v, at) /\ p \in Attached(v) /\ p \in Node
    BY <1>1, <1>2, ParentIsBeside
  <1>4. TreeInv(u) /\ Detaches(v, u, at) /\ Knows(v, u, at)
    BY <1>1, DetachIsSafe
  <1>5. Shrunk(v, u, at)
    BY <1>1, DetachShrinks
  <1> HIDE DEF u
  <1>6. u \in Trees /\ p \in Attached(u)
    BY <1>3, <1>4, <1>5 DEF Shrunk, TreeInv, Sound, Rooted
  <1>7. \A m \in Attached(v) : /\ m \in Attached(t) /\ Trail(v)[m] = Trail(t)[m]
                               /\ v.parent[m] = t.parent[m] /\ v.name[m] = t.name[m]
    BY <1>1 DEF Shrunk, Beside
  <1>8. ASSUME NEW m \in Attached(t) \ Attached(u) PROVE Knows(t, u, m)
    <2>1. CASE m \in Attached(v)
      <3>1. m = at
        BY <1>1, <1>5, <2>1, NothingInEmpty DEF Shrunk
      <3>2. Trail(v)[p] = Trail(t)[p] /\ p = t.parent[at] /\ v.name[at] = t.name[at]
        BY <1>1, <1>3, <1>7
      <3> QED
        BY <1>4, <3>1, <3>2 DEF Knows
    <2>2. CASE m \notin Attached(v)
      <3>1. Knows(t, v, m)
        BY <1>1, <2>2
      <3>2. m # at /\ m \in Node /\ m \in Born(v)
        BY <1>1, <1>2, <2>2, <3>1 DEF Knows
      <3>3. v.parent \in [Node -> Node \cup {NoNode}] /\ v.last \in [Node -> PathLike]
        BY <1>2 DEF Trees, PathLike
      <3>4. u.parent[m] = v.parent[m] /\ u.last[m] = v.last[m] /\ u.name[m] = v.name[m]
            /\ u.cache[m] = v.cache[m] /\ m \in Born(u)
        BY <1>4, <2>2, <3>2, <3>3 DEF Detaches, Born
      <3> QED
        BY <3>1, <3>4 DEF Knows
    <2> QED
      BY <2>1, <2>2
  <1>9. at \in Attached(t) \ {Root} /\ p = t.parent[at]
    BY <1>1, <1>7
  <1>10. Shrunk(t, u, at)
    <2>1. CASE v = t
      BY <1>5, <2>1
    <2>2. CASE v # t
      BY <1>1, <2>2, ShrunkUp DEF u
    <2> QED
      BY <2>1, <2>2
  <1> QED
    BY <1>3, <1>4, <1>6, <1>8, <1>9, <1>10 DEF Pruning

\* Pruning makes its steps one after the other, as many as there are nodes.
PruneRun(t, n, g) ==
    /\ g[0] = <<t, n>>
    /\ \A i \in 1 .. Cardinality(Node) : g[i] = PruneStep(g[i - 1])
    /\ Pruned(t, n) = g[Cardinality(Node)][1]

LEMMA PruneRuns ==
    ASSUME NEW t, NEW n, NEW V, <<t, n>> \in V, \A e \in V : PruneStep(e) \in V
    PROVE  \E g \in [0 .. Cardinality(Node) -> V] : PruneRun(t, n, g)
  <1> DEFINE N == Cardinality(Node)
             D == 0 .. N
             Top == {0}
             par == [i \in D |-> i - 1]
             base == [i \in Top |-> <<t, n>>]
             step == [e \in D \X V |-> PruneStep(e[2])]
             Eq(f) == f = [i \in 0 .. Cardinality(Node) |->
                             IF i = 0 THEN <<t, n>>
                             ELSE LET at == f[i - 1][2]
                                      before == f[i - 1][1]
                                  IN  IF at = Root \/ ~ Empty(before, at) THEN f[i - 1]
                                      ELSE <<Detach(before, at), before.parent[at]>>]
  <1>1. N \in Nat
    BY FS_CardinalityType, NodeAssumption
  <1>2. <<t, n>> \in V
    OBVIOUS
  <1>3. ASSUME NEW e \in V PROVE PruneStep(e) \in V
    OBVIOUS
  <1> HIDE DEF N
  <1>4. Top \in SUBSET D /\ base \in [Top -> V] /\ step \in [D \X V -> V]
    BY <1>1, <1>2, <1>3
  <1>5. Founded(D, Top, par)
    <2>1. ASSUME NEW S \in SUBSET D, S # {} PROVE \E m \in S : m \in Top \/ par[m] \notin S
      <3>1. S \in SUBSET Nat
        BY <1>1
      <3>2. PICK i \in S : \A j \in S : ~ (<<j, i>> \in OpToRel(<, Nat))
        BY <2>1, <3>1, NatLessThanWellFounded, WFMin
      <3>3. \A j \in S : ~ (j < i)
        BY <3>1, <3>2 DEF OpToRel
      <3>4. i \in D /\ i - 1 < i
        BY <1>1
      <3> QED
        BY <3>3, <3>4
    <2> QED
      BY <1>1, <2>1 DEF Founded
  <1>6. \E f \in [D -> V] : Recurs(f, D, Top, par, base, step)
    <2> HIDE DEF D, Top, par, base, step
    <2> QED
      BY <1>4, <1>5, RecursionDefines
  <1>7. PICK f \in [D -> V] : Recurs(f, D, Top, par, base, step)
    BY <1>6
  <1>8. \A i \in D : f[i] = IF i = 0 THEN <<t, n>> ELSE PruneStep(f[i - 1])
    <2> SUFFICES ASSUME NEW i \in D
                 PROVE  f[i] = IF i = 0 THEN <<t, n>> ELSE PruneStep(f[i - 1])
      OBVIOUS
    <2>1. CASE i = 0
      BY <1>7, <2>1 DEF Recurs
    <2>2. CASE i # 0
      <3>1. i - 1 \in D /\ par[i] = i - 1 /\ <<i, f[i - 1]>> \in D \X V
        BY <1>1, <2>2
      <3>2. f[i] = step[<<i, f[i - 1]>>]
        BY <1>7, <2>2, <3>1 DEF Recurs
      <3> QED
        BY <2>2, <3>1, <3>2
    <2> QED
      BY <2>1, <2>2
  <1>9. Eq(f)
    <2> DEFINE w == [i \in 0 .. Cardinality(Node) |->
                             IF i = 0 THEN <<t, n>>
                             ELSE LET at == f[i - 1][2]
                                      before == f[i - 1][1]
                                  IN  IF at = Root \/ ~ Empty(before, at) THEN f[i - 1]
                                      ELSE <<Detach(before, at), before.parent[at]>>]
    <2>1. \A i \in D : f[i] = w[i]
      BY <1>8 DEF PruneStep, N
    <2>2. DOMAIN w = D /\ w = [i \in D |-> w[i]]
      BY DEF N
    <2>3. f = w
      <3> HIDE DEF w, D
      <3> QED
        BY <2>1, <2>2
    <2> QED
      BY <2>3
  <1> DEFINE g == CHOOSE h : Eq(h)
  <1>10. Eq(g)
    BY <1>9
  <1>11. Pruned(t, n) = g[Cardinality(Node)][1]
    BY DEF Pruned
  <1> HIDE DEF g
  <1>12. \A i \in D : g[i] = IF i = 0 THEN <<t, n>> ELSE PruneStep(g[i - 1])
    BY <1>10 DEF PruneStep, N
  <1>13. ASSUME NEW i \in D PROVE g[i] \in V
    <2> DEFINE B == {j \in D : g[j] \notin V}
    <2> SUFFICES ASSUME B # {} PROVE FALSE
      OBVIOUS
    <2>1. PICK j \in B : j \in Top \/ par[j] \notin B
      <3>1. B \in SUBSET D
        OBVIOUS
      <3> HIDE DEF B, D, Top, par
      <3> QED
        BY <1>5, <3>1 DEF Founded
    <2>2. j = 0 \/ (j - 1 \in D /\ g[j - 1] \in V)
      BY <1>1, <2>1
    <2> QED
      BY <1>2, <1>3, <1>12, <2>1, <2>2
  <1>14. g \in [D -> V]
    <2>1. \E Y : g = [i \in 0 .. Cardinality(Node) |-> Y[i]]
      <3> DEFINE Y == [i \in 0 .. Cardinality(Node) |->
                             IF i = 0 THEN <<t, n>>
                             ELSE LET at == g[i - 1][2]
                                      before == g[i - 1][1]
                                  IN  IF at = Root \/ ~ Empty(before, at) THEN g[i - 1]
                                      ELSE <<Detach(before, at), before.parent[at]>>]
      <3>1. g = Y
        BY <1>10
      <3>2. Y = [i \in 0 .. Cardinality(Node) |-> Y[i]]
        OBVIOUS
      <3> HIDE DEF Y
      <3> QED
        BY <3>1, <3>2
    <2>2. D = 0 .. Cardinality(Node)
      BY DEF N
    <2> HIDE DEF D
    <2> QED
      BY <1>13, <2>1, <2>2
  <1>15. g[0] = <<t, n>> /\ \A i \in 1 .. N : g[i] = PruneStep(g[i - 1])
    BY <1>1, <1>12
  <1>16. g \in [0 .. Cardinality(Node) -> V]
    BY <1>14 DEF N
  <1>17. g[0] = <<t, n>> /\ \A i \in 1 .. Cardinality(Node) : g[i] = PruneStep(g[i - 1])
    BY <1>15 DEF N
  <1> QED
    BY <1>11, <1>16, <1>17 DEF PruneRun

LEMMA LeastOf ==
    ASSUME NEW S \in SUBSET Nat, S # {}
    PROVE  \E i \in S : \A j \in S : i <= j
  <1>1. PICK i \in S : \A j \in S : ~ (<<j, i>> \in OpToRel(<, Nat))
    BY NatLessThanWellFounded, WFMin
  <1>2. \A j \in S : ~ (j < i)
    BY <1>1 DEF OpToRel
  <1> QED
    BY <1>2

\* Every step that goes on takes something off, so that pruning comes to its end.
LEMMA PruneEnds ==
    ASSUME NEW t, NEW n, NEW V, <<t, n>> \in V, \A e \in V : PruneStep(e) \in V,
           \A e \in V : TreeInv(e[1]) /\ e[2] \in Attached(e[1])
    PROVE  \E e \in V : Pruned(t, n) = e[1] /\ PruneStep(e) = e
  <1> DEFINE N == Cardinality(Node)
             D == 0 .. N
             size(e) == Cardinality(Attached(e[1]))
  <1>1. N \in Nat
    BY FS_CardinalityType, NodeAssumption
  <1>a. \E g \in [0 .. Cardinality(Node) -> V] : PruneRun(t, n, g)
    BY PruneRuns
  <1>2. PICK g \in [D -> V] : /\ g[0] = <<t, n>>
                              /\ \A i \in 1 .. N : g[i] = PruneStep(g[i - 1])
                              /\ Pruned(t, n) = g[N][1]
    BY <1>a DEF PruneRun
  <1>3. ASSUME NEW e \in V
        PROVE  size(e) \in 1 .. N /\ (PruneStep(e) # e => size(PruneStep(e)) <= size(e) - 1)
    <2>1. Attached(e[1]) \subseteq Node /\ Root \in Attached(e[1]) /\ TreeInv(e[1])
      BY AttachedUp DEF TreeInv, Sound, Born
    <2>2. IsFiniteSet(Attached(e[1])) /\ size(e) \in Nat /\ size(e) <= N
      BY <2>1, NodeAssumption, FS_Subset, FS_CardinalityType
    <2>3. size(e) # 0
      BY <2>1, <2>2, FS_EmptySet
    <2>4. ASSUME PruneStep(e) # e PROVE size(PruneStep(e)) <= size(e) - 1
      <3> DEFINE u == Detach(e[1], e[2])
      <3>1. PruneStep(e)[1] = u /\ e[2] # Root /\ e[2] \in Attached(e[1])
        BY <2>4 DEF PruneStep
      <3>2. Shrunk(e[1], u, e[2])
        BY <2>1, <3>1, DetachShrinks
      <3> HIDE DEF u
      <3>3. Attached(u) \subseteq Attached(e[1]) \ {e[2]}
        BY <3>2 DEF Shrunk, Beside, Avoids
      <3>4. IsFiniteSet(Attached(e[1]) \ {e[2]}) /\ Cardinality(Attached(e[1]) \ {e[2]}) = size(e) - 1
        BY <2>2, <3>1, FS_RemoveElement
      <3> QED
        BY <3>1, <3>3, <3>4, FS_Subset
    <2> QED
      BY <1>1, <2>2, <2>3, <2>4
  <1> HIDE DEF N, size
  <1>4. \E i \in D : PruneStep(g[i]) = g[i]
    <2> SUFFICES ASSUME \A i \in D : PruneStep(g[i]) # g[i] PROVE FALSE
      OBVIOUS
    <2> DEFINE Big == {i \in D : ~ (size(g[i]) <= N - i)}
    <2>1. Big = {}
      <3> SUFFICES ASSUME Big # {} PROVE FALSE
        OBVIOUS
      <3>1. PICK i \in Big : \A j \in Big : i <= j
        <4>1. Big \in SUBSET Nat
          BY <1>1
        <4> HIDE DEF Big
        <4> QED
          BY <4>1, LeastOf
      <3>2. i # 0
        BY <1>1, <1>2, <1>3
      <3>3. i - 1 \in D /\ i \in 1 .. N /\ i - 1 \notin Big
        BY <1>1, <3>1, <3>2
      <3>4. g[i] = PruneStep(g[i - 1]) /\ g[i - 1] \in V /\ g[i] \in V /\ PruneStep(g[i - 1]) # g[i - 1]
        BY <1>2, <3>3
      <3>5. size(g[i]) <= size(g[i - 1]) - 1 /\ size(g[i - 1]) \in Nat /\ size(g[i]) \in Nat
            /\ size(g[i - 1]) <= N - (i - 1)
        BY <1>1, <1>3, <3>3, <3>4
      <3> QED
        BY <1>1, <3>1, <3>3, <3>5
    <2>2. N \in D /\ N \notin Big /\ g[N] \in V
      BY <1>1, <1>2, <2>1
    <2> QED
      BY <1>1, <1>3, <2>2
  <1>5. PICK i \in D : PruneStep(g[i]) = g[i]
    BY <1>4
  <1>6. \A k \in D : i <= k => g[k] = g[i]
    <2> DEFINE Other == {k \in D : i <= k /\ g[k] # g[i]}
    <2> SUFFICES ASSUME Other # {} PROVE FALSE
      OBVIOUS
    <2>1. PICK k \in Other : \A j \in Other : k <= j
      <3>1. Other \in SUBSET Nat
        BY <1>1
      <3> HIDE DEF Other
      <3> QED
        BY <3>1, LeastOf
    <2>2. k - 1 \in D /\ k \in 1 .. N /\ i <= k - 1 /\ k - 1 \notin Other
      BY <1>1, <2>1
    <2> QED
      BY <1>2, <1>5, <2>1, <2>2
  <1>7. N \in D /\ g[N] = g[i] /\ g[N] \in V
    BY <1>1, <1>6
  <1> QED
    BY <1>2, <1>5, <1>7

\* Pruning takes off one node with what is below it, if it takes off anything.
LEMMA PruneIsSafe ==
    ASSUME NEW t, TreeInv(t), NEW n \in Attached(t)
    PROVE  /\ TreeInv(Pruned(t, n)) /\ Remembers(t, Pruned(t, n))
           /\ Pruned(t, n) = t \/ \E top \in Attached(t) \ {Root} : Shrunk(t, Pruned(t, n), top)
  <1> DEFINE V == {e \in Trees \X Node : Pruning(t, n, e)}
  <1>1. <<t, n>> \in V
    <2>1. t \in Trees /\ n \in Node
      BY AttachedUp DEF TreeInv, Sound, Rooted, Born
    <2> QED
      BY <2>1 DEF Pruning
  <1>2. ASSUME NEW e \in V PROVE PruneStep(e) \in V
    <2>1. Pruning(t, n, PruneStep(e))
      BY PruneStepKeeps
    <2> QED
      BY <2>1 DEF Pruning
  <1>3. \A e \in V : TreeInv(e[1]) /\ e[2] \in Attached(e[1])
    BY DEF Pruning
  <1> HIDE DEF V
  <1>4. PICK e \in V : Pruned(t, n) = e[1]
    BY <1>1, <1>2, <1>3, PruneEnds
  <1>5. Pruning(t, n, e)
    BY DEF V
  <1>6. Remembers(t, Pruned(t, n))
    <2> SUFFICES ASSUME NEW m \in Attached(t) \ {Root}, Pruned(t, n).parent[m] = NoNode
                 PROVE  m \notin Attached(Pruned(t, n))
      BY <1>4, <1>5 DEF Remembers, Pruning
    <2>1. Rooted(Pruned(t, n))
      BY <1>4, <1>5 DEF Pruning, TreeInv, Sound
    <2> QED
      BY <2>1, AttachedUp, NodeAssumption DEF Born
  <1> QED
    BY <1>4, <1>5, <1>6 DEF Pruning

\* A new node under a name that was free leaves the others as they were.
LEMMA CreateLeaves ==
    ASSUME NEW t, TreeInv(t), Unborn(t) # {}, NEW d \in Attached(t), IsDir(t, d),
           NEW k \in Name, NEW kind \in {"dir", "file", "symlink"}, t.child[d][k] = NoNode
    PROVE  \A m \in Born(t) :
               LET u == Create(t, d, k, kind)
               IN  /\ m \in Born(u) /\ u.name[m] = t.name[m] /\ u.parent[m] = t.parent[m]
                   /\ u.last[m] = t.last[m] /\ u.cache[m] = t.cache[m] /\ u.kind[m] = t.kind[m]
  <1> DEFINE n == Fresh(t)
             v == Made(t, n, k, kind)
             u == Create(t, d, k, kind)
             X == Attached(t) \cup {n}
  <1>1. u = Attach(v, n, d)
    BY DEF Create, Made
  <1>2. n \in Unborn(t) /\ n \in Node /\ Born(t) \subseteq Node /\ n \notin Born(t)
    BY DEF Fresh, Unborn, Born
  <1> HIDE DEF n
  <1>3. Ready(t, v, X, n, d, k, kind)
    BY <1>2, MadeMayAttach DEF TreeInv
  <1> HIDE DEF v, u
  <1>4. MayAttach(v, X, n, d)
    BY <1>3 DEF Ready
  <1>5. Attaches(v, u, n, d)
    BY <1>1, <1>4, AttachKeeps
  <1>6. v.child[d][v.name[n]] = NoNode /\ NoNode \notin Node
    BY <1>2, <1>3, NodeAssumption DEF Ready
  <1>7. \A m \in Born(t) : m \in Node /\ m # n /\ m # NoNode
    BY <1>2, NodeAssumption
  <1>8. \A m \in Node \ {n} : /\ u.kind[m] = v.kind[m] /\ u.name[m] = v.name[m] /\ u.parent[m] = v.parent[m]
                              /\ u.last[m] = v.last[m] /\ u.cache[m] = v.cache[m]
    BY <1>5, <1>6 DEF Attaches
  <1>9. \A m \in Node \ {n} : /\ v.kind[m] = t.kind[m] /\ v.name[m] = t.name[m] /\ v.parent[m] = t.parent[m]
                              /\ v.last[m] = t.last[m] /\ v.cache[m] = t.cache[m]
    BY <1>3 DEF Ready
  <1>10. Born(t) \subseteq Born(u)
    BY <1>7, <1>8, <1>9 DEF Born
  <1> QED
    BY <1>7, <1>8, <1>9, <1>10 DEF u

\* What has the name of a new node goes, and knows where it was.
LEMMA ReplaceIsSafe ==
    ASSUME NEW t, TreeInv(t), Unborn(t) # {}, NEW d \in Attached(t), IsDir(t, d),
           NEW k \in Name, NEW kind \in {"dir", "file", "symlink"},
           t.child[d][k] # NoNode, Empty(t, t.child[d][k])
    PROVE  LET e == t.child[d][k]
               v == Detach(t, e)
               u == Create(v, d, k, kind)
           IN  /\ e \in Attached(t) \ {Root} /\ Unlinked(t, e) = v
               /\ t.parent[e] = d /\ t.name[e] = k
               /\ TreeInv(v) /\ Shrunk(t, v, e) /\ Unborn(v) # {} /\ d \in Attached(v)
               /\ IsDir(v, d) /\ v.child[d][k] = NoNode
               /\ TreeInv(u) /\ Remembers(t, u)
  <1> DEFINE e == t.child[d][k]
             v == Detach(t, e)
             u == Create(v, d, k, kind)
  <1>1. Rooted(t) /\ Attached(t) \subseteq Born(t) /\ Born(t) \subseteq Node /\ Sound(t, Attached(t))
    BY AttachedUp DEF TreeInv, Sound, Born
  <1>2. e \in Attached(t) /\ t.parent[e] = d /\ t.name[e] = k
    BY <1>1 DEF Sound
  <1>3. e # Root
    BY <1>1, <1>2, NodeAssumption DEF Rooted
  <1>4. Unlinked(t, e) = v
    BY <1>2 DEF Unlinked, Attached
  <1> HIDE DEF e
  <1>5. /\ TreeInv(v) /\ Detaches(t, v, e) /\ Knows(t, v, e) /\ Shrunk(t, v, e)
    BY <1>2, <1>3, DetachIsSafe, DetachShrinks
  <1> HIDE DEF v
  <1>6. d \in Attached(v)
    BY <1>1, <1>2, <1>3, <1>5, ParentIsBeside DEF Shrunk
  <1>7. Unborn(v) # {} /\ IsDir(v, d)
    BY <1>5 DEF Detaches, IsDir, Unborn, Born
  <1>8. v.child[d][k] = NoNode
    BY <1>1, <1>2, <1>5 DEF Detaches
  <1>9. TreeInv(u) /\ Remembers(v, u)
    BY <1>5, <1>6, <1>7, CreateIsSafe
  <1>10. \A m \in Born(v) : /\ m \in Born(u) /\ u.name[m] = v.name[m] /\ u.parent[m] = v.parent[m]
                            /\ u.last[m] = v.last[m] /\ u.cache[m] = v.cache[m] /\ u.kind[m] = v.kind[m]
    BY <1>5, <1>6, <1>7, <1>8, CreateLeaves
  <1> HIDE DEF u
  <1>11. ASSUME NEW m \in Attached(t) \ {Root}, u.parent[m] = NoNode PROVE Knows(t, u, m)
    <2>1. CASE m = e
      BY <1>5, <1>10, <2>1 DEF Knows
    <2>2. CASE m # e
      <3>1. Empty(t, e)
        BY DEF e
      <3>2. m \in Beside(t, e)
        BY <1>2, <2>2, <3>1, NothingInEmpty
      <3>3. m \in Attached(v) /\ Rooted(v) /\ m \in Born(v)
        BY <1>5, <3>2 DEF Shrunk, TreeInv, Sound, Attached
      <3>4. v.parent[m] \in Attached(v)
        BY <3>3, AttachedUp
      <3>5. v.parent[m] # NoNode
        BY <3>4, NodeAssumption DEF Attached, Born
      <3> QED
        BY <1>10, <1>11, <3>3, <3>5
    <2> QED
      BY <2>1, <2>2
  <1> QED
    BY <1>2, <1>3, <1>4, <1>5, <1>6, <1>7, <1>8, <1>9, <1>11 DEF Remembers, e, v, u

-----------------------------------------------------------------------------
(* The file system.                                                         *)

Inv == TreeInv(tree) /\ rw \in BOOLEAN

LEMMA EmptyIsSound == TreeInv(EmptyTree)
  <1> DEFINE t == EmptyTree
  <1>1. t \in Trees
    <2>1. PICK k0 : k0 = CHOOSE k \in Name : TRUE
      OBVIOUS
    <2>2. k0 \in Name
      BY <2>1, NodeAssumption
    <2>3. NoPath \in Seq(Name \cup {"?"})
      BY PathLikes DEF PathLike
    <2> QED
      BY <2>1, <2>2, <2>3 DEF EmptyTree, Trees, Kinds, NoCache
  <1>2. Born(t) = {Root} /\ Unborn(t) = Node \ {Root}
    BY NodeAssumption DEF Born, Unborn, EmptyTree
  <1>3. /\ \A m \in Node : t.parent[m] = NoNode /\ Empty(t, m) /\ t.cache[m] = NoCache
        /\ IsDir(t, Root) /\ \A m \in Node, k \in Name : t.child[m][k] = NoNode
    BY NodeAssumption DEF EmptyTree, Empty, IsDir
  <1> HIDE DEF t
  <1>4. Rooted(t)
    BY <1>1, <1>2, <1>3, NodeAssumption DEF Rooted, Acyclic
  <1>5. Sound(t, {Root})
    BY <1>2, <1>3, <1>4, NodeAssumption DEF Sound, CacheFits, NoCache
  <1>6. Complete(t, {Root})
    BY <1>3, NodeAssumption DEF Complete
  <1> QED
    BY <1>5, <1>6, Narrow DEF t

\* Every step leaves the tree in order, and what it took off remembers its path.
LEMMA StepIsSafe ==
    ASSUME Inv, Next
    PROVE  Inv' /\ Remembers(tree, tree')
  <1>1. TreeInv(tree) /\ rw \in BOOLEAN /\ Attached(tree) \subseteq Born(tree) /\ Born(tree) \subseteq Node
        /\ Rooted(tree)
    BY AttachedUp DEF Inv, TreeInv, Sound, Born
  <1> SUFFICES TreeInv(tree') /\ rw' \in BOOLEAN /\ Remembers(tree, tree')
    BY DEF Inv
  <1>2. ASSUME NEW d \in Node, NEW k \in Name, MkDir(d, k)
        PROVE  TreeInv(tree') /\ rw' \in BOOLEAN /\ Remembers(tree, tree')
    BY <1>1, <1>2, CreateIsSafe DEF MkDir, MayAddTo, MoreNodes
  <1>3. ASSUME NEW d \in Node, NEW k \in Name, NEW kind \in {"file", "symlink"},
               MayAddTo(d), AddOver(d, k, kind), UNCHANGED rw
        PROVE  TreeInv(tree') /\ rw' \in BOOLEAN /\ Remembers(tree, tree')
    <2>1. CASE tree.child[d][k] = NoNode
      BY <1>1, <1>3, <2>1, CreateIsSafe DEF AddOver, MayAddTo, MoreNodes
    <2>2. CASE tree.child[d][k] # NoNode
      BY <1>1, <1>3, <2>2, ReplaceIsSafe DEF AddOver, MayAddTo, MoreNodes
    <2> QED
      BY <2>1, <2>2
  <1>4. ASSUME NEW d \in Node, NEW k \in Name, AddFile(d, k) \/ AddSymlink(d, k)
        PROVE  TreeInv(tree') /\ rw' \in BOOLEAN /\ Remembers(tree, tree')
    BY <1>3, <1>4 DEF AddFile, AddSymlink
  <1>5. ASSUME NEW d \in Node, NEW k \in Name, InsertFile(d, k)
        PROVE  TreeInv(tree') /\ rw' \in BOOLEAN /\ Remembers(tree, tree')
    BY <1>1, <1>5, CreateIsSafe DEF InsertFile, MayAddTo, MoreNodes
  <1>6. ASSUME NEW n \in Node, NEW k \in Name, SetName(n, k)
        PROVE  TreeInv(tree') /\ rw' \in BOOLEAN /\ Remembers(tree, tree')
    BY <1>1, <1>6, RenameIsSafe DEF SetName
  <1>7. ASSUME NEW n \in Node, NEW recursive \in BOOLEAN, Unlink(n, recursive)
        PROVE  TreeInv(tree') /\ rw' \in BOOLEAN /\ Remembers(tree, tree')
    BY <1>1, <1>7, DetachIsSafe, UnlinkRemembers DEF Unlink
  <1>8. ASSUME NEW n \in Node, PruneIfEmptyDir(n)
        PROVE  TreeInv(tree') /\ rw' \in BOOLEAN /\ Remembers(tree, tree')
    BY <1>1, <1>8, PruneIsSafe DEF PruneIfEmptyDir
  <1>9. ASSUME NEW n \in Node, NEW d \in Node, MoveTo(n, d)
        PROVE  TreeInv(tree') /\ rw' \in BOOLEAN /\ Remembers(tree, tree')
    <2>1. d \in Beside(tree, n)
      BY <1>9 DEF MoveTo, Below, Beside
    <2> QED
      BY <1>1, <1>9, <2>1, MoveIsSafe DEF MoveTo
  <1>10. ASSUME Freeze
         PROVE  TreeInv(tree') /\ rw' \in BOOLEAN /\ Remembers(tree, tree')
    <2>1. \A m \in Attached(tree) \ {Root} : tree.parent[m] # NoNode
      BY <1>1, AttachedUp, NodeAssumption
    <2> QED
      BY <1>1, <1>10, <2>1 DEF Freeze, Remembers
  <1> QED
    BY <1>2, <1>4, <1>5, <1>6, <1>7, <1>8, <1>9, <1>10 DEF Next

\* The lists of children, the parents and the caches agree at all times.
THEOREM TreeIsSound == Spec => []Inv
  <1>1. Init => Inv
    BY EmptyIsSound DEF Init, Inv
  <1>2. Inv /\ [Next]_vars => Inv'
    <2> SUFFICES ASSUME Inv, [Next]_vars PROVE Inv'
      OBVIOUS
    <2>1. CASE Next
      BY <2>1, StepIsSafe
    <2>2. CASE UNCHANGED vars
      BY <2>2 DEF vars, Inv
    <2> QED
      BY <2>1, <2>2
  <1> QED
    BY <1>1, <1>2, PTL DEF Spec

\* The values have their types.
THEOREM FileSystemTypes == Spec => []TypeOK
  <1>1. Inv => TypeOK
    BY DEF Inv, TreeInv, Sound, Rooted, TypeOK
  <1> QED
    BY <1>1, TreeIsSound, PTL

\* A node that says it is not detached is found in the package, at the place
\* its parents lead to.
THEOREM NodesArePresent == Spec => []AttachedIsPresent
  <1>1. Inv => AttachedIsPresent
    BY TrailFinds DEF Inv, AttachedIsPresent
  <1> QED
    BY <1>1, TreeIsSound, PTL

\* What is found in the package reports the path it was found by, whatever was
\* moved or renamed above it since it last worked its path out.
THEOREM PathsAreAccurate == Spec => []PathIsAccurate
  <1>1. Inv => PathIsAccurate
    <2> SUFFICES ASSUME Inv, NEW p \in PathNames, At(tree)[p] # NoNode
                 PROVE  PathOf(tree)[At(tree)[p]] = p
      BY DEF PathIsAccurate
    <2>1. Sound(tree, Attached(tree))
      BY DEF Inv, TreeInv
    <2>2. At(tree)[p] \in Attached(tree) /\ Trail(tree)[At(tree)[p]] = p
      BY <2>1, FoundByTrail
    <2> QED
      BY <2>1, <2>2, PathIsTrail
  <1> QED
    BY <1>1, TreeIsSound, PTL

\* A node that is taken off its parent, or is replaced, reports the path it had.
THEOREM RemovedAreRemembered == Spec => RemovedPathIsRemembered
  <1> DEFINE A == \A n \in Attached(tree) \ {Root} :
                      tree'.parent[n] = NoNode => PathOf(tree')[n] = Trail(tree)[n]
  <1>1. Inv /\ [Next]_vars => [A]_vars
    <2> SUFFICES ASSUME Inv, Next PROVE A
      BY DEF vars
    <2> SUFFICES ASSUME NEW n \in Attached(tree) \ {Root}, tree'.parent[n] = NoNode
                 PROVE  PathOf(tree')[n] = Trail(tree)[n]
      OBVIOUS
    <2>1. Inv' /\ Knows(tree, tree', n)
      BY StepIsSafe DEF Remembers
    <2> DEFINE t == tree
               u == tree'
               p == t.parent[n]
    <2>2. /\ Rooted(t) /\ Rooted(u) /\ n \in Born(t) /\ p \in Attached(t) /\ p \in Born(t)
          /\ p # NoNode
      BY <2>1, AttachedUp, NodeAssumption DEF Inv, TreeInv, Sound, Born, Attached
    <2>3. Trail(t)[n] = Append(Trail(t)[p], t.name[n]) /\ Trail(t)[p] \in Seq(Name)
      BY <2>2, TrailDefined
    <2>4. Detached(u, n)
      BY <2>1, AvoidsUp DEF Knows, Detached
    <2>5. n \in Born(u) \ {Root}
      BY <2>1 DEF Knows
    <2>6. PathOf(u)[n] = Joined(u, n, u.last[n])
      BY <2>2, <2>4, <2>5, PathDefined DEF Under
    <2>7. u.last[n] = Trail(t)[p] /\ u.cache[n] = NoCache /\ u.name[n] = t.name[n]
      BY <2>1 DEF Knows
    <2>8. Trail(t)[p] # NoPath
      BY <2>3, PathLikes
    <2> QED
      BY <2>3, <2>6, <2>7, <2>8 DEF Joined, NoCache
  <1> QED
    BY <1>1, TreeIsSound, PTL DEF Spec, RemovedPathIsRemembered

-----------------------------------------------------------------------------
(* What an operation does to the paths of the package.                      *)

\* The paths of the package are the names along the parents of its nodes.
LEMMA ContentsAre ==
    ASSUME NEW t, TreeInv(t)
    PROVE  /\ DOMAIN Contents(t) = {Trail(t)[n] : n \in Attached(t)}
           /\ Contents(t) = [p \in DOMAIN Contents(t) |-> Contents(t)[p]]
           /\ \A n \in Attached(t) : Contents(t)[Trail(t)[n]] = t.kind[n]
           /\ \A n, m \in Attached(t) : Trail(t)[n] = Trail(t)[m] => n = m
           /\ \A n \in Attached(t) : Trail(t)[n] \in Seq(Name)
  <1>1. Rooted(t) /\ Attached(t) \subseteq Born(t) /\ Born(t) \subseteq Node /\ Sound(t, Attached(t))
    BY AttachedUp DEF TreeInv, Sound, Born
  <1> DEFINE D == {q \in PathNames : At(t)[q] # NoNode}
  <1>2. DOMAIN Contents(t) = D /\ Contents(t) = [p \in D |-> t.kind[At(t)[p]]]
    BY DEF Contents
  <1>3. \A n \in Attached(t) : /\ Trail(t)[n] \in PathNames /\ At(t)[Trail(t)[n]] = n /\ n # NoNode
                               /\ Trail(t)[n] \in Seq(Name)
    BY <1>1, TrailIsShort, TrailFinds, TrailDefined, NodeAssumption
  <1>4. \A p \in D : At(t)[p] \in Attached(t) /\ Trail(t)[At(t)[p]] = p
    BY <1>1, FoundByTrail
  <1>5. D = {Trail(t)[n] : n \in Attached(t)}
    BY <1>3, <1>4
  <1> HIDE DEF D
  <1>6. \A n \in Attached(t) : Contents(t)[Trail(t)[n]] = t.kind[n]
    BY <1>2, <1>3, <1>5
  <1>7. \A n, m \in Attached(t) : Trail(t)[n] = Trail(t)[m] => n = m
    BY <1>3
  <1>8. Contents(t) = [p \in DOMAIN Contents(t) |-> Contents(t)[p]]
    BY <1>2
  <1> QED
    BY <1>2, <1>3, <1>5, <1>6, <1>7, <1>8

\* q is at the beginning of p.
Begins(q, p) == Package!IsPrefix(q, p)

LEMMA BeginsAppend ==
    ASSUME NEW p \in Seq(Name), NEW q \in Seq(Name), NEW k \in Name
    PROVE  /\ Begins(p, p)
           /\ Begins(q, p) => Begins(q, Append(p, k))
           /\ Begins(q, Append(p, k)) => q = Append(p, k) \/ Begins(q, p)
           /\ Begins(q, <<>>) => q = <<>>
  <1> DEFINE r == Append(p, k)
  <1>1. Len(p) \in Nat /\ Len(q) \in Nat /\ r \in Seq(Name) /\ Len(r) = Len(p) + 1
        /\ \A i \in 1 .. Len(p) : r[i] = p[i]
    OBVIOUS
  <1>2. \A a, b \in Seq(Name) : Len(a) <= Len(b) =>
            (SubSeq(a, 1, Len(a)) = SubSeq(b, 1, Len(a)) <=> \A i \in 1 .. Len(a) : a[i] = b[i])
    <2> SUFFICES ASSUME NEW a \in Seq(Name), NEW b \in Seq(Name), Len(a) <= Len(b)
                 PROVE  SubSeq(a, 1, Len(a)) = SubSeq(b, 1, Len(a)) <=> \A i \in 1 .. Len(a) : a[i] = b[i]
      OBVIOUS
    <2> DEFINE l == Len(a)
    <2>1. l \in Nat /\ Len(b) \in Nat
      OBVIOUS
    <2>2. \A i \in 1 .. l : a[i] \in Name /\ b[i] \in Name
      BY <2>1
    <2>3. /\ SubSeq(a, 1, l) \in Seq(Name) /\ SubSeq(b, 1, l) \in Seq(Name)
          /\ Len(SubSeq(a, 1, l)) = l /\ Len(SubSeq(b, 1, l)) = l
          /\ \A i \in 1 .. l : SubSeq(a, 1, l)[i] = a[i] /\ SubSeq(b, 1, l)[i] = b[i]
      BY <2>1, <2>2
    <2> HIDE DEF l
    <2> QED
      BY <2>1, <2>3, SeqEqual DEF l
  <1>3. \A a, b \in Seq(Name) : Begins(a, b) <=> Len(a) <= Len(b) /\ \A i \in 1 .. Len(a) : a[i] = b[i]
    BY <1>2 DEF Begins, Package!IsPrefix
  <1>4. Begins(p, p)
    BY <1>1, <1>3
  <1>5. ASSUME Begins(q, p) PROVE Begins(q, r)
    <2>1. Len(q) <= Len(p) /\ \A i \in 1 .. Len(q) : q[i] = p[i]
      BY <1>3, <1>5
    <2>2. Len(q) <= Len(r) /\ \A i \in 1 .. Len(q) : i \in 1 .. Len(p)
      BY <1>1, <2>1
    <2>3. \A i \in 1 .. Len(q) : q[i] = r[i]
      BY <1>1, <2>1, <2>2
    <2> HIDE DEF r
    <2> QED
      BY <1>1, <1>3, <2>2, <2>3
  <1>6. ASSUME Begins(q, r), q # r PROVE Begins(q, p)
    <2>1. Len(q) <= Len(p) + 1 /\ \A i \in 1 .. Len(q) : q[i] = r[i]
      BY <1>1, <1>3, <1>6
    <2>2. Len(q) # Len(p) + 1
      <3> SUFFICES ASSUME Len(q) = Len(p) + 1 PROVE FALSE
        OBVIOUS
      <3>1. q = r
        BY <1>1, <2>1, SeqEqual
      <3> QED
        BY <1>6, <3>1
    <2>3. Len(q) <= Len(p) /\ \A i \in 1 .. Len(q) : q[i] = p[i]
      BY <1>1, <2>1, <2>2
    <2> QED
      BY <1>3, <2>3
  <1>7. Begins(q, <<>>) => q = <<>>
    <2>1. <<>> \in Seq(Name) /\ Len(<<>>) = 0
      OBVIOUS
    <2>2. Begins(q, <<>>) => Len(q) <= Len(<<>>)
      BY ONLY <1>3, <2>1, q \in Seq(Name), Zenon
    <2>3. Begins(q, <<>>) => Len(q) = 0
      BY ONLY <1>1, <2>1, <2>2
    <2> QED
      BY <2>3
  <1> QED
    BY <1>4, <1>5, <1>6, <1>7

\* What names at the beginning of those of a node lead to is a node above it.
LEMMA PrefixIsAbove ==
    ASSUME NEW t, TreeInv(t), NEW q \in Seq(Name)
    PROVE  \A m \in Attached(t) : Begins(q, Trail(t)[m]) =>
               \E e \in Attached(t) : Trail(t)[e] = q /\ ~ Avoids(t, m, e)
  <1>1. Rooted(t) /\ Attached(t) \subseteq Born(t) /\ Born(t) \subseteq Node
    BY AttachedUp DEF TreeInv, Sound, Born
  <1> DEFINE Good == {m \in Attached(t) : Begins(q, Trail(t)[m]) =>
                          \E e \in Attached(t) : Trail(t)[e] = q /\ ~ Avoids(t, m, e)}
  <1>2. ASSUME NEW m \in Attached(t), m = Root \/ t.parent[m] \in Good PROVE m \in Good
    <2> SUFFICES ASSUME Begins(q, Trail(t)[m])
                 PROVE  \E e \in Attached(t) : Trail(t)[e] = q /\ ~ Avoids(t, m, e)
      OBVIOUS
    <2>1. ~ Avoids(t, m, m)
      BY DEF Avoids
    <2>2. CASE Trail(t)[m] = q
      BY <2>1, <2>2
    <2>3. CASE Trail(t)[m] # q
      <3> DEFINE p == t.parent[m]
      <3>1. m # Root
        BY <1>1, <2>3, TrailDefined, BeginsAppend, NodeAssumption
      <3>2. p \in Attached(t) /\ p # NoNode /\ m \in Born(t)
        BY <1>1, <3>1, AttachedUp, NodeAssumption
      <3>3. Trail(t)[m] = Append(Trail(t)[p], t.name[m]) /\ Trail(t)[p] \in Seq(Name) /\ t.name[m] \in Name
        BY <1>1, <3>1, <3>2, TrailDefined DEF Rooted, Trees
      <3>4. Begins(q, Trail(t)[p])
        BY <2>3, <3>3, BeginsAppend
      <3>5. PICK e \in Attached(t) : Trail(t)[e] = q /\ ~ Avoids(t, p, e)
        BY <1>2, <3>1, <3>4
      <3>6. ~ Avoids(t, m, e)
        BY <3>2, <3>5, AvoidsUp
      <3> QED
        BY <3>5, <3>6
    <2> QED
      BY <2>2, <2>3
  <1>3. Attached(t) \subseteq Good
    <2> HIDE DEF Good
    <2> QED
      BY <1>1, <1>2, AlongParents
  <1> QED
    BY <1>3

\* A node is below another if the names along its parents begin with those of
\* the other.
LEMMA BelowIsPrefix ==
    ASSUME NEW t, TreeInv(t), NEW e \in Attached(t)
    PROVE  \A m \in Attached(t) : Begins(Trail(t)[e], Trail(t)[m]) <=> ~ Avoids(t, m, e)
  <1>1. Rooted(t) /\ Attached(t) \subseteq Born(t) /\ Born(t) \subseteq Node
    BY AttachedUp DEF TreeInv, Sound, Born
  <1>2. \A m \in Attached(t) : Trail(t)[m] \in Seq(Name)
    BY ContentsAre
  <1>3. ASSUME NEW m \in Attached(t), Begins(Trail(t)[e], Trail(t)[m]) PROVE ~ Avoids(t, m, e)
    <2>1. PICK f \in Attached(t) : Trail(t)[f] = Trail(t)[e] /\ ~ Avoids(t, m, f)
      BY <1>2, <1>3, PrefixIsAbove
    <2>2. f = e
      BY <2>1, ContentsAre
    <2> QED
      BY <2>1, <2>2
  <1> DEFINE Good == {m \in Attached(t) : ~ Avoids(t, m, e) => Begins(Trail(t)[e], Trail(t)[m])}
  <1>4. ASSUME NEW m \in Attached(t), m = Root \/ t.parent[m] \in Good PROVE m \in Good
    <2> SUFFICES ASSUME ~ Avoids(t, m, e) PROVE Begins(Trail(t)[e], Trail(t)[m])
      OBVIOUS
    <2>0. \E k \in Name : TRUE
      BY NodeAssumption
    <2>1. CASE m = e
      BY <1>2, <2>0, <2>1, BeginsAppend
    <2>2. CASE m # e
      <3> DEFINE p == t.parent[m]
      <3>1. m \in Born(t) /\ p # NoNode /\ ~ Avoids(t, p, e)
        BY <1>1, <2>2, AvoidsUp
      <3>2. m # Root
        BY <1>1, <3>1 DEF Rooted
      <3>3. p \in Attached(t) /\ Begins(Trail(t)[e], Trail(t)[p])
        BY <1>1, <1>4, <3>1, <3>2
      <3>4. Trail(t)[m] = Append(Trail(t)[p], t.name[m]) /\ t.name[m] \in Name
        BY <1>1, <3>1, <3>2, TrailDefined DEF Rooted, Trees
      <3> QED
        BY <1>2, <3>3, <3>4, BeginsAppend
    <2> QED
      BY <2>1, <2>2
  <1>5. Attached(t) \subseteq Good
    <2> HIDE DEF Good
    <2> QED
      BY <1>1, <1>4, AlongParents
  <1> QED
    BY <1>3, <1>5

\* What has the name k in d, or nothing, is where that name leads.
LEMMA ChildPath ==
    ASSUME NEW t, TreeInv(t), NEW d \in Attached(t), NEW k \in Name
    PROVE  LET c == t.child[d][k]
               to == Append(Trail(t)[d], k)
           IN  /\ to \in Seq(Name) /\ to # <<>>
               /\ c # NoNode => c \in Attached(t) /\ Trail(t)[c] = to
               /\ \A m \in Attached(t) : Begins(to, Trail(t)[m]) <=> c # NoNode /\ ~ Avoids(t, m, c)
  <1> DEFINE c == t.child[d][k]
             to == Append(Trail(t)[d], k)
  <1>1. Rooted(t) /\ Attached(t) \subseteq Born(t) /\ Born(t) \subseteq Node /\ Sound(t, Attached(t))
        /\ Complete(t, Attached(t))
    BY AttachedUp DEF TreeInv, Sound, Born
  <1>2. to \in Seq(Name) /\ to # <<>> /\ Trail(t)[d] \in Seq(Name)
    <2>1. Trail(t)[d] \in Seq(Name)
      BY ContentsAre
    <2>2. \A q \in Seq(Name) : Append(q, k) \in Seq(Name) /\ Append(q, k) # <<>>
      <3> SUFFICES ASSUME NEW q \in Seq(Name)
                   PROVE  Append(q, k) \in Seq(Name) /\ Append(q, k) # <<>>
        OBVIOUS
      <3>1. Append(q, k) \in Seq(Name)
        OBVIOUS
      <3>2. Len(Append(q, k)) = Len(q) + 1 /\ Len(q) \in Nat
        OBVIOUS
      <3> QED
        BY <3>1, <3>2
    <2> QED
      BY <2>1, <2>2
  <1>3. ASSUME c # NoNode PROVE c \in Attached(t) /\ Trail(t)[c] = to
    <2>1. c \in Attached(t) /\ t.parent[c] = d /\ t.name[c] = k
      BY <1>1, <1>3 DEF Sound
    <2>2. c # Root /\ d # NoNode /\ c \in Born(t)
      BY <1>1, <2>1, NodeAssumption DEF Rooted
    <2> QED
      BY <1>1, <2>1, <2>2, TrailDefined
  <1>4. ASSUME NEW m \in Attached(t), Begins(to, Trail(t)[m]) PROVE c # NoNode /\ ~ Avoids(t, m, c)
    <2> HIDE DEF to, c
    <2>1. PICK e \in Attached(t) : Trail(t)[e] = to /\ ~ Avoids(t, m, e)
      BY <1>2, <1>4, PrefixIsAbove
    <2>2. e # Root
      BY <1>1, <1>2, <2>1, TrailDefined
    <2> DEFINE p == t.parent[e]
    <2>3. p \in Attached(t) /\ p # NoNode /\ e \in Born(t) /\ t.name[e] \in Name
      BY <1>1, <2>2, AttachedUp, NodeAssumption DEF Rooted, Trees
    <2>4. Trail(t)[e] = Append(Trail(t)[p], t.name[e]) /\ Trail(t)[p] \in Seq(Name)
      BY <1>1, <2>2, <2>3, TrailDefined
    <2> HIDE DEF p
    <2>5. Trail(t)[p] = Trail(t)[d] /\ t.name[e] = k
      <3>1. Append(Trail(t)[p], t.name[e]) = Append(Trail(t)[d], k)
        BY <2>1, <2>4 DEF to
      <3> QED
        <4> DEFINE a == Trail(t)[p]
                   b == Trail(t)[d]
                   l == t.name[e]
        <4>1. a \in Seq(Name) /\ b \in Seq(Name) /\ l \in Name /\ Append(a, l) = Append(b, k)
          BY <1>2, <2>3, <2>4, <3>1
        <4> HIDE DEF a, b, l
        <4>2. a = b /\ l = k
          BY <4>1, AppendInjective
        <4> QED
          BY <4>2 DEF a, b, l
    <2>6. p = d
      BY <2>3, <2>5, ContentsAre
    <2>7. c = e
      BY <1>1, <2>3, <2>5, <2>6 DEF Complete, c, p
    <2> QED
      BY <1>1, <2>1, <2>3, <2>7, NodeAssumption
  <1>5. ASSUME NEW m \in Attached(t), c # NoNode, ~ Avoids(t, m, c) PROVE Begins(to, Trail(t)[m])
    <2> HIDE DEF to, c
    <2> QED
      BY <1>3, <1>5, BelowIsPrefix
  <1> HIDE DEF to, c
  <1>6. /\ to \in Seq(Name) /\ to # <<>>
        /\ c # NoNode => c \in Attached(t) /\ Trail(t)[c] = to
        /\ \A m \in Attached(t) : Begins(to, Trail(t)[m]) <=> c # NoNode /\ ~ Avoids(t, m, c)
    BY <1>2, <1>3, <1>4, <1>5
  <1> QED
    BY <1>6 DEF to, c

\* A map of paths to kinds that has those of the nodes, and no other, is what
\* is in the package.
LEMMA ContentsIs ==
    ASSUME NEW u, TreeInv(u), NEW D, NEW f, f = [p \in D |-> f[p]],
           \A n \in Attached(u) : Trail(u)[n] \in D /\ f[Trail(u)[n]] = u.kind[n],
           \A p \in D : \E n \in Attached(u) : Trail(u)[n] = p
    PROVE  Contents(u) = f
  <1> DEFINE C == Contents(u)
  <1>1. /\ DOMAIN C = {Trail(u)[n] : n \in Attached(u)} /\ C = [p \in DOMAIN C |-> C[p]]
        /\ \A n \in Attached(u) : C[Trail(u)[n]] = u.kind[n]
    BY ContentsAre
  <1> HIDE DEF C
  <1>2. DOMAIN C = D
    BY <1>1
  <1>3. \A p \in D : C[p] = f[p]
    BY <1>1
  <1>4. [p \in D |-> C[p]] = [p \in D |-> f[p]]
    BY <1>3
  <1> QED
    BY <1>1, <1>2, <1>4 DEF C

\* What is attached under the same names as before is the package as it was.
LEMMA ContentsStay ==
    ASSUME NEW t, TreeInv(t), NEW u, TreeInv(u), Attached(u) = Attached(t),
           \A m \in Attached(t) : Trail(u)[m] = Trail(t)[m] /\ u.kind[m] = t.kind[m]
    PROVE  Contents(u) = Contents(t)
  <1> DEFINE C == Contents(t)
  <1>1. /\ DOMAIN C = {Trail(t)[n] : n \in Attached(t)} /\ C = [p \in DOMAIN C |-> C[p]]
        /\ \A n \in Attached(t) : C[Trail(t)[n]] = t.kind[n]
    BY ContentsAre
  <1> HIDE DEF C
  <1>2. \A n \in Attached(u) : Trail(u)[n] \in DOMAIN C /\ C[Trail(u)[n]] = u.kind[n]
    BY <1>1
  <1>3. \A p \in DOMAIN C : \E n \in Attached(u) : Trail(u)[n] = p
    BY <1>1
  <1>4. Contents(u) = C
    BY <1>1, <1>2, <1>3, ContentsIs
  <1> QED
    BY <1>4 DEF C

\* When n is taken off, its path is dropped with all that begins with it.
LEMMA ShrunkIsDrop ==
    ASSUME NEW t, TreeInv(t), NEW n \in Attached(t) \ {Root}, NEW u, Shrunk(t, u, n)
    PROVE  /\ Contents(u) = Package!Drop(Contents(t), Trail(t)[n])
           /\ Package!IsDrop(Contents(t), Contents(u))
  <1> DEFINE C == Contents(t)
             path == Trail(t)[n]
             D == DOMAIN C \ Package!Over(C, path)
             f == [p \in D |-> C[p]]
  <1>1. /\ DOMAIN C = {Trail(t)[m] : m \in Attached(t)}
        /\ \A m \in Attached(t) : C[Trail(t)[m]] = t.kind[m]
        /\ \A m, l \in Attached(t) : Trail(t)[m] = Trail(t)[l] => m = l
    BY ContentsAre
  <1>2. \A m \in Attached(t) : Begins(path, Trail(t)[m]) <=> ~ Avoids(t, m, n)
    BY BelowIsPrefix
  <1>3. /\ TreeInv(u) /\ u.kind = t.kind /\ Attached(u) = Beside(t, n)
        /\ \A m \in Attached(u) : Trail(u)[m] = Trail(t)[m]
    BY DEF Shrunk
  <1> HIDE DEF C, path
  <1>4. \A m \in Attached(t) : Trail(t)[m] \in D <=> Avoids(t, m, n)
    BY <1>1, <1>2 DEF Package!Over, Begins
  <1>5. \A p \in D : \E m \in Attached(u) : Trail(u)[m] = p
    BY <1>1, <1>3, <1>4 DEF Beside
  <1>6. \A m \in Attached(u) : Trail(u)[m] \in D /\ C[Trail(u)[m]] = u.kind[m]
    BY <1>1, <1>3, <1>4 DEF Beside
  <1> HIDE DEF D
  <1>7. Contents(u) = f
    <2>1. f = [p \in D |-> f[p]]
      OBVIOUS
    <2>2. \A m \in Attached(u) : Trail(u)[m] \in D /\ f[Trail(u)[m]] = u.kind[m]
      BY <1>6
    <2> HIDE DEF f
    <2> QED
      BY <1>3, <1>5, <2>1, <2>2, ContentsIs
  <1>8. Contents(u) = Package!Drop(C, path)
    BY <1>7 DEF D, Package!Drop
  <1>9. path \in DOMAIN C
    BY <1>1 DEF path
  <1>10. path \notin D
    <2>1. ~ Avoids(t, n, n)
      BY DEF Avoids
    <2> QED
      BY <1>4, <2>1 DEF path
  <1>11. path # <<>>
    <2>1. Root \in Attached(t) /\ Trail(t)[Root] = <<>>
      BY AttachedUp, TrailDefined DEF TreeInv, Sound
    <2> QED
      BY <1>1, <2>1 DEF path
  <1>12. DOMAIN Contents(u) = D
    BY <1>7
  <1>13. Package!IsDrop(C, Contents(u))
    BY <1>8, <1>9, <1>10, <1>11, <1>12 DEF Package!IsDrop
  <1> QED
    BY <1>8, <1>13 DEF C, path

\* What n replaces when it is put in d under the name k: nothing, if that is
\* where it was.
Replaced(t, n, d, k) ==
    IF d = t.parent[n] /\ k = t.name[n] THEN NoNode ELSE t.child[d][k]

\* n, which is new or was attached elsewhere, is in d under the name k.
Placed(t, u, n, d, k) ==
    /\ TreeInv(t) /\ TreeInv(u)
    /\ n \in Unborn(t) \cup (Attached(t) \ {Root})
    /\ Born(u) = Born(t) \cup {n}
    /\ d \in Beside(t, n) /\ IsDir(t, d) /\ k \in Name
    /\ \A m \in Born(t) \ {n} : u.kind[m] = t.kind[m]
    /\ \A m \in Node : u.parent[m] = IF m = n THEN d
                                     ELSE IF m = Replaced(t, n, d, k) THEN NoNode ELSE t.parent[m]
    /\ \A m \in Node : u.name[m] = IF m = n THEN k ELSE t.name[m]

\* The nodes that stay where they are, and those that come with n.
Staying(t, n, c) == {m \in Beside(t, n) : c = NoNode \/ Avoids(t, m, c)}
Coming(t, u, n) == {m \in Born(u) : ~ Avoids(t, m, n)}

\* Those are what is attached once n is in its place.
LEMMA PlacedAttached ==
    ASSUME NEW t, NEW u, NEW n, NEW d, NEW k, Placed(t, u, n, d, k)
    PROVE  LET c == Replaced(t, n, d, k)
           IN  /\ Attached(u) = Staying(t, n, c) \cup Coming(t, u, n)
               /\ \A m \in Staying(t, n, c) : Trail(u)[m] = Trail(t)[m]
               /\ c # NoNode => c # n /\ c # Root /\ c \in Attached(t) /\ t.parent[c] = d
               /\ d \in Staying(t, n, c)
               /\ c \notin Coming(t, u, n)
               /\ Trail(u)[n] = Append(Trail(t)[d], k)
  <1> DEFINE c == Replaced(t, n, d, k)
             S == Staying(t, n, c)
             L == Coming(t, u, n)
  <1>1. /\ TreeInv(t) /\ TreeInv(u) /\ n \in Node /\ n # Root
        /\ Born(u) = Born(t) \cup {n} /\ d \in Beside(t, n) /\ d \in Attached(t) /\ k \in Name
        /\ \A m \in Node : u.parent[m] = IF m = n THEN d ELSE IF m = c THEN NoNode ELSE t.parent[m]
        /\ \A m \in Node : u.name[m] = IF m = n THEN k ELSE t.name[m]
    <2>1. Root \in Born(t)
      BY DEF Placed, TreeInv, Sound
    <2> QED
      BY <2>1 DEF Placed, Unborn, Attached, Beside, Born
  <1>2. /\ Rooted(t) /\ Rooted(u) /\ Born(t) \subseteq Node /\ Born(u) \subseteq Node
        /\ Attached(t) \subseteq Born(t) /\ Attached(u) \subseteq Born(u)
        /\ Sound(t, Attached(t)) /\ NoNode \notin Node
    BY <1>1, AttachedUp, NodeAssumption DEF TreeInv, Sound, Born
  <1>3. ASSUME c # NoNode
        PROVE  c # n /\ c # Root /\ c \in Attached(t) /\ t.parent[c] = d /\ Avoids(t, d, c)
    <2>1. c = t.child[d][k] /\ ~ (d = t.parent[n] /\ k = t.name[n])
      BY <1>3 DEF Replaced
    <2>2. c \in Attached(t) /\ t.parent[c] = d /\ t.name[c] = k
      BY <1>1, <1>2, <1>3, <2>1 DEF Sound
    <2>3. c # n
      BY <2>1, <2>2
    <2>4. d # NoNode
      BY <1>1, <1>2
    <2>5. c # Root
      BY <1>2, <2>2, <2>4 DEF Rooted
    <2>6. Avoids(t, d, c)
      BY <1>2, <2>2, <2>4, ParentNotBelow
    <2> QED
      BY <2>2, <2>3, <2>5, <2>6
  <1>4. d \in S
    BY <1>1, <1>3 DEF Staying
  <1>5. S \subseteq Attached(t) /\ L \subseteq Born(u)
    BY DEF Staying, Beside, Coming
  <1>6. \A m \in L : m # n => m \in Born(t) /\ t.parent[m] # NoNode /\ ~ Avoids(t, t.parent[m], n)
                              /\ t.parent[m] \in L /\ m # Root /\ m # c
    <2> SUFFICES ASSUME NEW m \in L, m # n
                 PROVE  /\ m \in Born(t) /\ t.parent[m] # NoNode /\ ~ Avoids(t, t.parent[m], n)
                        /\ t.parent[m] \in L /\ m # Root /\ m # c
      OBVIOUS
    <2>1. m \in Born(t) /\ ~ Avoids(t, m, n)
      BY <1>1 DEF Coming
    <2>2. t.parent[m] # NoNode /\ ~ Avoids(t, t.parent[m], n)
      BY <2>1, AvoidsUp
    <2>3. t.parent[m] \in Born(t)
      BY <1>2, <2>1, <2>2 DEF Rooted
    <2>4. m # Root
      BY <1>2, <2>2 DEF Rooted
    <2>5. m # c
      <3>1. c # NoNode => Avoids(t, t.parent[c], n)
        BY <1>1, <1>3 DEF Beside
      <3>2. m # NoNode
        BY <1>2, <2>1
      <3> QED
        BY <2>2, <3>1, <3>2
    <2> QED
      BY <1>1, <2>1, <2>2, <2>3, <2>4, <2>5 DEF Coming
  <1>7. n \in L
    <2>1. ~ Avoids(t, n, n)
      BY DEF Avoids
    <2> QED
      BY <1>1, <2>1 DEF Coming
  <1>8. c \notin L
    <2>1. c # n
      BY <1>1, <1>2, <1>3
    <2> QED
      BY <1>6, <2>1
  <1>9. \A m \in S : m # n /\ m # c /\ (m = Root \/ t.parent[m] \in S)
    <2> SUFFICES ASSUME NEW m \in S PROVE m # n /\ m # c /\ (m = Root \/ t.parent[m] \in S)
      OBVIOUS
    <2>1. m \in Beside(t, n) /\ m \in Born(t) /\ m # NoNode
      BY <1>2, <1>5 DEF Staying
    <2>2. m # n
      BY <2>1 DEF Beside, Avoids
    <2>3. m # c
      BY <2>1 DEF Staying, Avoids
    <2>4. ASSUME m # Root PROVE t.parent[m] \in S
      <3>1. t.parent[m] \in Beside(t, n)
        BY <1>2, <2>1, <2>4, BesideUp
      <3>2. t.parent[m] # NoNode
        BY <1>2, <3>1 DEF Beside
      <3>3. c = NoNode \/ Avoids(t, t.parent[m], c)
        BY <2>1, <3>2, AvoidsUp DEF Staying
      <3> QED
        BY <3>1, <3>3 DEF Staying
    <2> QED
      BY <2>2, <2>3, <2>4
  <1>10. \A m \in S : Trail(u)[m] = Trail(t)[m] /\ m \in Attached(u)
    <2>1. \A m \in S : u.parent[m] = t.parent[m] /\ u.name[m] = t.name[m]
      BY <1>1, <1>2, <1>5, <1>9
    <2>2. S \subseteq Born(u) /\ S \in SUBSET Attached(t)
      BY <1>1, <1>2, <1>5
    <2>3. \A m \in S : m = Root \/ t.parent[m] \in S
      BY <1>9
    <2> HIDE DEF S
    <2> QED
      BY <1>2, <2>1, <2>2, <2>3, SameTrail
  <1> HIDE DEF S, L
  <1>11. L \subseteq Attached(u)
    <2> DEFINE B == L \ Attached(u)
    <2> SUFFICES ASSUME B # {} PROVE FALSE
      OBVIOUS
    <2>1. B \in SUBSET Born(u)
      BY <1>5
    <2>2. PICK m \in B : u.parent[m] \notin B
      BY <1>2, <2>1 DEF Acyclic, Rooted
    <2>3. m # n
      <3>1. u.parent[n] = d /\ d \in Attached(u)
        BY <1>1, <1>4, <1>10
      <3>2. n \in Attached(u)
        BY <1>1, <1>2, <3>1, AttachedUp
      <3> QED
        BY <2>2, <3>2
    <2>4. t.parent[m] \in L /\ m # Root /\ m # c /\ m \in Born(u) /\ m \in Node
      BY <1>2, <1>5, <1>6, <2>2, <2>3
    <2>5. u.parent[m] = t.parent[m]
      BY <1>1, <2>3, <2>4
    <2>6. u.parent[m] \in Attached(u)
      BY <2>2, <2>4, <2>5
    <2>7. m \in Attached(u)
      BY <1>2, <2>4, <2>6, AttachedUp
    <2> QED
      BY <2>2, <2>7
  <1>12. Attached(u) \subseteq S \cup L
    <2> DEFINE Good == S \cup L
    <2>1. ASSUME NEW m \in Attached(u), m = Root \/ u.parent[m] \in Good PROVE m \in Good
      <3>1. CASE m = Root
        <4>1. Root \in Attached(t) /\ Root \in Born(t) /\ t.parent[Root] = NoNode
          BY <1>2, AttachedUp DEF Rooted
        <4>2. \A top : top # Root => Avoids(t, Root, top)
          BY <4>1, AvoidsUp
        <4>3. Root \in S
          BY <1>1, <1>3, <4>1, <4>2 DEF S, Staying, Beside
        <4> QED
          BY <3>1, <4>3
      <3>2. CASE m = n
        BY <1>7, <3>2
      <3>3. CASE m # Root /\ m # n
        <4> DEFINE p == u.parent[m]
        <4>1. p \in Good /\ p \in Attached(u) /\ m \in Born(u) /\ m \in Node /\ m \in Born(t) /\ p # NoNode
          BY <1>1, <1>2, <2>1, <3>3, AttachedUp
        <4>2. m # c /\ p = t.parent[m]
          BY <1>1, <3>3, <4>1
        <4>3. CASE p \in L
          <5>1. ~ Avoids(t, p, n)
            BY <4>3 DEF L, Coming
          <5>2. ~ Avoids(t, m, n)
            BY <4>1, <4>2, <5>1, AvoidsUp
          <5> QED
            BY <4>1, <5>2 DEF L, Coming
        <4>4. CASE p \in S
          <5>1. p \in Attached(t) /\ Avoids(t, p, n) /\ (c = NoNode \/ Avoids(t, p, c))
            BY <4>4 DEF S, Staying, Beside
          <5>2. m \in Attached(t)
            BY <1>2, <3>3, <4>1, <4>2, <5>1, AttachedUp
          <5>3. Avoids(t, m, n) /\ (c = NoNode \/ Avoids(t, m, c))
            BY <3>3, <4>1, <4>2, <5>1, AvoidsUp
          <5> QED
            BY <5>2, <5>3 DEF S, Staying, Beside
        <4> QED
          BY <4>1, <4>3, <4>4
      <3> QED
        BY <3>1, <3>2, <3>3
    <2>2. Attached(u) \subseteq Good
      <3> HIDE DEF Good
      <3> QED
        BY <1>2, <2>1, AlongParents
    <2> QED
      BY <2>2
  <1>13. Trail(u)[n] = Append(Trail(t)[d], k)
    <2>1. u.parent[n] = d /\ u.name[n] = k /\ d # NoNode /\ n \in Born(u) /\ n # Root
      BY <1>1, <1>2
    <2>2. Trail(u)[n] = Append(Trail(u)[d], k)
      BY <1>2, <2>1, TrailDefined
    <2> QED
      BY <1>4, <1>10, <2>2
  <1>14. Attached(u) = S \cup L
    BY <1>10, <1>11, <1>12
  <1> QED
    BY <1>3, <1>4, <1>8, <1>10, <1>13, <1>14 DEF S, L

\* A new node is put at the path of its name in d.
IsPutAt(t, u, n, d, k) == Contents(u) = Package!Put(Contents(t), Append(Trail(t)[d], k), u.kind[n])

LEMMA PlacedIsPut ==
    ASSUME NEW t, NEW u, NEW n \in Unborn(t), NEW d, NEW k, Placed(t, u, n, d, k)
    PROVE  IsPutAt(t, u, n, d, k)
  <1> DEFINE c == t.child[d][k]
             to == Append(Trail(t)[d], k)
             C == Contents(t)
             D == (DOMAIN C \ Package!Over(C, to)) \cup {to}
             f == [p \in D |-> IF p = to THEN u.kind[n] ELSE C[p]]
             S == Staying(t, n, c)
  <1>1. /\ TreeInv(t) /\ TreeInv(u) /\ n \in Node /\ Born(u) = Born(t) \cup {n} /\ n \notin Born(t)
        /\ d \in Attached(t) /\ k \in Name /\ \A m \in Born(t) \ {n} : u.kind[m] = t.kind[m]
    BY DEF Placed, Unborn, Beside
  <1>2. /\ Rooted(t) /\ Sound(t, Attached(t)) /\ Attached(t) \subseteq Born(t) /\ Born(t) \subseteq Node
        /\ NoNode \notin Node
    BY <1>1, AttachedUp, NodeAssumption DEF TreeInv, Sound, Born
  <1>3. Replaced(t, n, d, k) = c
    <2>1. t.parent[n] = NoNode
      BY <1>2 DEF Sound
    <2> QED
      BY <1>1, <1>2, <2>1 DEF Replaced
  <1>4. \A m \in Born(t) : Avoids(t, m, n)
    <2>1. Born(t) \in SUBSET (Born(t) \ {n})
      BY <1>1
    <2>2. \A m \in Born(t) : t.parent[m] \in Born(t) \cup {NoNode}
      BY <1>2 DEF Rooted
    <2> QED
      BY <2>1, <2>2 DEF Avoids
  <1>5. Coming(t, u, n) = {n}
    <2>1. ~ Avoids(t, n, n)
      BY DEF Avoids
    <2> QED
      BY <1>1, <1>4, <2>1 DEF Coming
  <1>6. /\ Attached(u) = S \cup {n} /\ \A m \in S : Trail(u)[m] = Trail(t)[m]
        /\ Trail(u)[n] = to
    BY <1>3, <1>5, PlacedAttached
  <1>7. S = {m \in Attached(t) : c = NoNode \/ Avoids(t, m, c)}
    BY <1>2, <1>4 DEF Staying, Beside
  <1>8. /\ DOMAIN C = {Trail(t)[m] : m \in Attached(t)}
        /\ \A m \in Attached(t) : C[Trail(t)[m]] = t.kind[m]
    BY <1>1, ContentsAre
  <1>9. \A m \in Attached(t) : Begins(to, Trail(t)[m]) <=> c # NoNode /\ ~ Avoids(t, m, c)
    BY <1>1, ChildPath
  <1>10. Begins(to, to)
    <2>1. to \in Seq(Name)
      BY <1>1, ChildPath
    <2> HIDE DEF to
    <2> QED
      BY <1>1, <2>1, BeginsAppend
  <1> HIDE DEF C, to, c, S
  <1>11. \A m \in Attached(t) : m \in S <=> Trail(t)[m] \in DOMAIN C \ Package!Over(C, to)
    BY <1>7, <1>8, <1>9 DEF Package!Over, Begins
  <1>12. to \notin DOMAIN C \ Package!Over(C, to)
    BY <1>10 DEF Package!Over, Begins
  <1>13. \A m \in Attached(u) : Trail(u)[m] \in D /\ f[Trail(u)[m]] = u.kind[m]
    <2>1. ASSUME NEW m \in S
          PROVE  Trail(u)[m] \in DOMAIN C \ Package!Over(C, to) /\ C[Trail(u)[m]] = u.kind[m]
      BY <1>1, <1>2, <1>6, <1>7, <1>8, <1>11
    <2> QED
      BY <1>6, <1>12, <2>1
  <1>14. \A p \in D : \E m \in Attached(u) : Trail(u)[m] = p
    <2>1. ASSUME NEW p \in DOMAIN C \ Package!Over(C, to) PROVE \E m \in S : Trail(t)[m] = p
      BY <1>8, <1>11, <2>1
    <2> QED
      BY <1>6, <2>1
  <1>15. f = [p \in D |-> f[p]]
    OBVIOUS
  <1>16. Contents(u) = f
    <2> HIDE DEF D, f
    <2> QED
      BY <1>1, <1>13, <1>14, <1>15, ContentsIs
  <1> QED
    BY <1>16 DEF IsPutAt, Package!Put, to, C

\* What Create makes is in its place.
LEMMA CreatePlaces ==
    ASSUME NEW t, TreeInv(t), Unborn(t) # {}, NEW d \in Attached(t), IsDir(t, d),
           NEW k \in Name, NEW kind \in {"dir", "file", "symlink"}
    PROVE  /\ Fresh(t) \in Unborn(t)
           /\ Placed(t, Create(t, d, k, kind), Fresh(t), d, k)
           /\ Create(t, d, k, kind).kind[Fresh(t)] = kind
  <1> DEFINE n == Fresh(t)
             v == Made(t, n, k, kind)
             u == Create(t, d, k, kind)
             X == Attached(t) \cup {n}
             c == t.child[d][k]
  <1>1. u = Attach(v, n, d)
    BY DEF Create, Made
  <1>2. n \in Unborn(t) /\ n \in Node /\ Born(t) \subseteq Node /\ n \notin Born(t)
    BY DEF Fresh, Unborn, Born
  <1> HIDE DEF n
  <1>3. Ready(t, v, X, n, d, k, kind)
    BY <1>2, MadeMayAttach DEF TreeInv
  <1>4. TreeInv(u)
    BY CreateIsSafe
  <1> HIDE DEF v, u
  <1>5. Attaches(v, u, n, d)
    BY <1>1, <1>3, AttachKeeps DEF Ready
  <1>6. v.name[n] = k /\ v.child = t.child /\ v.parent = t.parent
    BY <1>2, <1>3 DEF Ready
  <1>7. /\ Rooted(t) /\ Sound(t, Attached(t)) /\ NoNode \notin Node /\ d \in Node
    BY <1>2, NodeAssumption DEF TreeInv, Sound, Attached
  <1>8. Replaced(t, n, d, k) = c
    <2>1. t.parent[n] = NoNode
      BY <1>2, <1>7 DEF Sound
    <2> QED
      BY <1>7, <2>1 DEF Replaced
  <1>9. u.kind = v.kind /\ u.name = v.name
        /\ \A m \in Node : u.parent[m] = IF m = n THEN d ELSE IF m = c THEN NoNode ELSE t.parent[m]
    BY <1>5, <1>6 DEF Attaches
  <1>10. /\ \A m \in Node : u.kind[m] = IF m = n THEN kind ELSE t.kind[m]
         /\ \A m \in Node : u.name[m] = IF m = n THEN k ELSE t.name[m]
         /\ Born(v) = Born(t) \cup {n}
    BY <1>3, <1>9 DEF Ready
  <1>11. Born(u) = Born(t) \cup {n}
    BY <1>9, <1>10 DEF Born
  <1>12. d \in Beside(t, n)
    <2>1. Born(t) \in SUBSET (Born(t) \ {n}) /\ d \in Born(t)
      BY <1>2 DEF Attached
    <2>2. \A m \in Born(t) : t.parent[m] \in Born(t) \cup {NoNode}
      BY <1>7 DEF Rooted
    <2> QED
      BY <2>1, <2>2 DEF Avoids, Beside
  <1>13. Placed(t, u, n, d, k)
    BY <1>2, <1>4, <1>8, <1>9, <1>10, <1>11, <1>12 DEF Placed
  <1> QED
    BY <1>2, <1>10, <1>13 DEF n, u

\* A new node is put in the package.
LEMMA CreateIsPut ==
    ASSUME NEW t, TreeInv(t), Unborn(t) # {}, NEW d \in Attached(t), IsDir(t, d),
           NEW k \in Name, NEW kind \in {"dir", "file", "symlink"}
    PROVE  Contents(Create(t, d, k, kind)) = Package!Put(Contents(t), Append(Trail(t)[d], k), kind)
  <1> DEFINE n == Fresh(t)
             u == Create(t, d, k, kind)
  <1>1. n \in Unborn(t) /\ Placed(t, u, n, d, k) /\ u.kind[n] = kind
    BY CreatePlaces
  <1> HIDE DEF n, u
  <1>2. Contents(u) = Package!Put(Contents(t), Append(Trail(t)[d], k), u.kind[n])
    <2>1. n \in Unborn(t)
      BY <1>1
    <2>2. Placed(t, u, n, d, k)
      BY <1>1
    <2>3. IsPutAt(t, u, n, d, k)
      BY ONLY <2>1, <2>2, PlacedIsPut
    <2> QED
      BY <2>3 DEF IsPutAt
  <1>3. Contents(u) = Package!Put(Contents(t), Append(Trail(t)[d], k), kind)
    BY <1>1, <1>2
  <1> QED
    BY <1>3 DEF u

\* Putting a path at a directory is a step of the package.
LEMMA PutIsPut ==
    ASSUME NEW t, TreeInv(t), NEW d \in Attached(t), IsDir(t, d), NEW k \in Name,
           NEW kind, NEW g, g = Package!Put(Contents(t), Append(Trail(t)[d], k), kind)
    PROVE  Package!IsPut(Contents(t), g)
  <1> DEFINE C == Contents(t)
             q == Trail(t)[d]
             to == Append(q, k)
  <1>1. q \in Package!Dirs(C)
    <2>1. DOMAIN C = {Trail(t)[n] : n \in Attached(t)} /\ C[q] = t.kind[d]
      BY ContentsAre
    <2> HIDE DEF C
    <2>2. q \in DOMAIN C
      BY <2>1
    <2>3. C[q] = "dir"
      BY <2>1 DEF IsDir
    <2> QED
      BY <2>2, <2>3 DEF Package!Dirs
  <1> HIDE DEF C, q
  <1>2. to \in DOMAIN g /\ g[to] = kind
    BY DEF Package!Put, C, q
  <1>3. g = Package!Put(C, to, g[to])
    BY <1>2 DEF C, q
  <1>4. Package!IsPut(C, g)
    BY <1>1, <1>2, <1>3 DEF Package!IsPut
  <1> QED
    BY <1>4 DEF C

\* What is put where something was dropped is put over it.
LEMMA PutOverDropped ==
    ASSUME NEW c, NEW to, NEW kind
    PROVE  Package!Put(Package!Drop(c, to), to, kind) = Package!Put(c, to, kind)
  <1> DEFINE e == Package!Drop(c, to)
             O == DOMAIN c \ Package!Over(c, to)
  <1>1. DOMAIN e = O /\ \A p \in O : e[p] = c[p]
    BY DEF Package!Drop
  <1>2. \A p \in O : ~ Package!IsPrefix(to, p)
    BY DEF Package!Over
  <1> HIDE DEF e
  <1>3. DOMAIN e \ Package!Over(e, to) = O
    BY <1>1, <1>2 DEF Package!Over
  <1> HIDE DEF O
  <1>4. Package!Put(e, to, kind) = [p \in O \cup {to} |-> IF p = to THEN kind ELSE e[p]]
    BY <1>3 DEF Package!Put
  <1>5. Package!Put(c, to, kind) = [p \in O \cup {to} |-> IF p = to THEN kind ELSE c[p]]
    BY DEF Package!Put, O
  <1>6. \A p \in O \cup {to} : (IF p = to THEN kind ELSE e[p]) = (IF p = to THEN kind ELSE c[p])
    BY <1>1
  <1> QED
    BY <1>4, <1>5, <1>6 DEF e

\* add_file and add_symlink put the path, too, when they remove what was there.
LEMMA ReplaceIsPut ==
    ASSUME NEW t, TreeInv(t), Unborn(t) # {}, NEW d \in Attached(t), IsDir(t, d),
           NEW k \in Name, NEW kind \in {"dir", "file", "symlink"},
           t.child[d][k] # NoNode, Empty(t, t.child[d][k])
    PROVE  Contents(Create(Unlinked(t, t.child[d][k]), d, k, kind)) =
               Package!Put(Contents(t), Append(Trail(t)[d], k), kind)
  <1> DEFINE e == t.child[d][k]
             v == Detach(t, e)
             to == Append(Trail(t)[d], k)
  <1>1. /\ e \in Attached(t) \ {Root} /\ Unlinked(t, e) = v
        /\ TreeInv(v) /\ Shrunk(t, v, e) /\ Unborn(v) # {} /\ d \in Attached(v) /\ IsDir(v, d)
    BY ReplaceIsSafe
  <1>2. Trail(t)[e] = to
    BY <1>1, ChildPath
  <1> HIDE DEF e, v
  <1>3. Contents(v) = Package!Drop(Contents(t), to)
    BY <1>1, <1>2, ShrunkIsDrop
  <1>4. Trail(v)[d] = Trail(t)[d]
    BY <1>1 DEF Shrunk
  <1>5. Contents(Create(v, d, k, kind)) = Package!Put(Contents(v), to, kind)
    BY <1>1, <1>4, CreateIsPut
  <1>6. Contents(Create(v, d, k, kind)) = Package!Put(Contents(t), to, kind)
    BY <1>3, <1>5, PutOverDropped
  <1> QED
    BY <1>1, <1>6 DEF e, v

\* The names p after path are the names q after to.
Rebases(p, path, q, to) ==
    \E rest \in Seq(Name) : p = path \o rest /\ q = to \o rest

LEMMA RebasesStep ==
    ASSUME NEW path \in Seq(Name), NEW to \in Seq(Name)
    PROVE  /\ Rebases(path, path, to, to)
           /\ \A p, q \in Seq(Name), k \in Name :
                  Rebases(p, path, q, to) => Rebases(Append(p, k), path, Append(q, k), to)
  <1>1. <<>> \in Seq(Name) /\ path = path \o <<>> /\ to = to \o <<>>
    OBVIOUS
  <1>2. Rebases(path, path, to, to)
    BY <1>1 DEF Rebases
  <1>3. ASSUME NEW p \in Seq(Name), NEW q \in Seq(Name), NEW k \in Name, Rebases(p, path, q, to)
        PROVE  Rebases(Append(p, k), path, Append(q, k), to)
    <2>1. PICK r \in Seq(Name) : p = path \o r /\ q = to \o r
      BY <1>3 DEF Rebases
    <2>2. \A a, b \in Seq(Name) : Append(a \o b, k) = a \o Append(b, k)
      <3> SUFFICES ASSUME NEW a \in Seq(Name), NEW b \in Seq(Name)
                   PROVE  Append(a \o b, k) = a \o Append(b, k)
        OBVIOUS
      <3> DEFINE one == <<k>>
      <3>1. one \in Seq(Name) /\ a \o b \in Seq(Name)
        OBVIOUS
      <3>2. Append(a \o b, k) = (a \o b) \o one
        BY <3>1, AppendIsConcat
      <3>3. Append(b, k) = b \o one
        BY AppendIsConcat
      <3> HIDE DEF one
      <3>4. (a \o b) \o one = a \o (b \o one)
        BY ONLY <3>1, a \in Seq(Name), b \in Seq(Name)
      <3> QED
        BY <3>2, <3>3, <3>4
    <2>3. Append(r, k) \in Seq(Name)
      OBVIOUS
    <2>4. Append(p, k) = path \o Append(r, k) /\ Append(q, k) = to \o Append(r, k)
      BY <2>1, <2>2
    <2> QED
      BY <2>3, <2>4 DEF Rebases
  <1> QED
    BY <1>2, <1>3

\* Such names are those of the package's relocation, there and back.
LEMMA RebasesIs ==
    ASSUME NEW path \in Seq(Name), NEW to \in Seq(Name), NEW p \in Seq(Name), NEW q \in Seq(Name),
           Rebases(p, path, q, to)
    PROVE  Package!Rebased(p, path, to) = q /\ Begins(path, p)
  <1>1. PICK r \in Seq(Name) : p = path \o r /\ q = to \o r
    BY DEF Rebases
  <1>2. /\ Len(path) \in Nat /\ Len(r) \in Nat /\ Len(path \o r) = Len(path) + Len(r)
        /\ \A i \in 1 .. Len(path) : (path \o r)[i] = path[i]
        /\ \A i \in 1 .. Len(r) : (path \o r)[Len(path) + i] = r[i]
    OBVIOUS
  <1>3. SubSeq(p, Len(path) + 1, Len(p)) = r
    <2> DEFINE a == Len(path)
               b == Len(r)
               s == SubSeq(p, a + 1, a + b)
    <2>1. a \in Nat /\ b \in Nat /\ Len(p) = a + b /\ p \in Seq(Name)
          /\ \A i \in 1 .. b : p[a + i] = r[i]
      BY <1>1, <1>2
    <2>2. \A i \in a + 1 .. a + b : p[i] \in Name
      BY <2>1
    <2> HIDE DEF a, b
    <2>3. s \in Seq(Name) /\ Len(s) = b /\ \A i \in 1 .. b : s[i] = p[a + i]
      BY <2>1, <2>2
    <2>4. \A i \in 1 .. b : s[i] = r[i]
      BY <2>1, <2>3
    <2> HIDE DEF s
    <2>5. s = r
      BY <2>3, <2>4, SeqEqual DEF b
    <2> QED
      BY <2>1, <2>5 DEF s, a
  <1>4. Package!Rebased(p, path, to) = q
    BY <1>1, <1>3 DEF Package!Rebased
  <1>5. Begins(path, p)
    <2> DEFINE a == Len(path)
               s == SubSeq(p, 1, a)
    <2>1. a \in Nat /\ a <= Len(p) /\ Len(p) \in Nat /\ \A i \in 1 .. a : p[i] = path[i]
      BY <1>1, <1>2
    <2>2. \A i \in 1 .. a : p[i] \in Name
      BY <2>1
    <2> HIDE DEF a
    <2>3. s \in Seq(Name) /\ Len(s) = a /\ \A i \in 1 .. a : s[i] = p[i]
      BY <2>1, <2>2
    <2>4. s = path
      <3> HIDE DEF s
      <3> QED
        BY <2>1, <2>3, SeqEqual DEF a
    <2> QED
      BY <2>1, <2>4 DEF Begins, Package!IsPrefix, a, s
  <1> QED
    BY <1>4, <1>5

LEMMA RebasesBack ==
    ASSUME NEW path, NEW to, NEW p, NEW q, Rebases(p, path, q, to)
    PROVE  Rebases(q, to, p, path)
  BY DEF Rebases

\* The names that lead to what came with n are those before, relocated.
LEMMA ComingRebases ==
    ASSUME NEW t, NEW u, NEW n \in Attached(t) \ {Root}, NEW d, NEW k, Placed(t, u, n, d, k)
    PROVE  /\ Coming(t, u, n) = {m \in Attached(t) : ~ Avoids(t, m, n)}
           /\ \A m \in Coming(t, u, n) :
                  Rebases(Trail(t)[m], Trail(t)[n], Trail(u)[m], Append(Trail(t)[d], k))
  <1> DEFINE c == Replaced(t, n, d, k)
             L == Coming(t, u, n)
             path == Trail(t)[n]
             to == Append(Trail(t)[d], k)
  <1>1. /\ TreeInv(t) /\ TreeInv(u) /\ n \in Node /\ n \in Born(t)
        /\ Born(u) = Born(t) \cup {n} /\ d \in Attached(t) /\ k \in Name
        /\ \A m \in Node : u.parent[m] = IF m = n THEN d ELSE IF m = c THEN NoNode ELSE t.parent[m]
        /\ \A m \in Node : u.name[m] = IF m = n THEN k ELSE t.name[m]
    BY DEF Placed, Attached, Beside, Born
  <1>2. /\ Rooted(t) /\ Rooted(u) /\ Born(t) \subseteq Node /\ Born(u) = Born(t)
        /\ Attached(t) \subseteq Born(t) /\ Attached(u) \subseteq Born(u) /\ NoNode \notin Node
    BY <1>1, AttachedUp, NodeAssumption DEF TreeInv, Sound, Born
  <1>3. c \notin L /\ L \subseteq Attached(u) /\ Trail(u)[n] = to
    BY PlacedAttached
  <1>4. \A m \in L : m # n => /\ m \in Born(t) /\ t.parent[m] # NoNode /\ m # c
                              /\ t.parent[m] \in L /\ m # Root
    <2> SUFFICES ASSUME NEW m \in L, m # n
                 PROVE  /\ m \in Born(t) /\ t.parent[m] # NoNode /\ m # c
                        /\ t.parent[m] \in L /\ m # Root
      OBVIOUS
    <2>1. m \in Born(t) /\ ~ Avoids(t, m, n)
      BY <1>2 DEF Coming
    <2>2. t.parent[m] # NoNode /\ ~ Avoids(t, t.parent[m], n)
      BY <2>1, AvoidsUp
    <2>3. t.parent[m] \in Born(t) /\ m # Root
      BY <1>2, <2>1, <2>2 DEF Rooted
    <2> QED
      BY <1>2, <1>3, <2>1, <2>2, <2>3 DEF Coming
  <1>5. L \subseteq Attached(t)
    <2> DEFINE B == L \ Attached(t)
    <2> SUFFICES ASSUME B # {} PROVE FALSE
      OBVIOUS
    <2>1. B \in SUBSET Born(t)
      BY <1>2 DEF Coming
    <2>2. PICK m \in B : t.parent[m] \notin B
      BY <1>2, <2>1 DEF Acyclic, Rooted
    <2>3. m # n
      BY <2>2
    <2>4. t.parent[m] \in Attached(t) /\ m \in Born(t) /\ m # Root
      <3> HIDE DEF L
      <3> QED
        BY <1>4, <2>2, <2>3
    <2>5. m \in Attached(t)
      BY <1>2, <2>4, AttachedUp
    <2> QED
      BY <2>2, <2>5
  <1>6. L = {m \in Attached(t) : ~ Avoids(t, m, n)}
    BY <1>2, <1>5 DEF Coming
  <1>7. /\ \A m \in Attached(t) : Trail(t)[m] \in Seq(Name)
        /\ \A m \in Attached(u) : Trail(u)[m] \in Seq(Name)
        /\ path \in Seq(Name) /\ to \in Seq(Name)
    BY <1>1, ContentsAre, ChildPath
  <1> HIDE DEF L, c, path, to
  <1> DEFINE Good == {m \in Attached(t) : m \in L => Rebases(Trail(t)[m], path, Trail(u)[m], to)}
  <1>8. ASSUME NEW m \in Attached(t), m = Root \/ t.parent[m] \in Good PROVE m \in Good
    <2> SUFFICES ASSUME m \in L PROVE Rebases(Trail(t)[m], path, Trail(u)[m], to)
      OBVIOUS
    <2>1. CASE m = n
      BY <1>3, <1>7, <2>1, RebasesStep DEF path
    <2>2. CASE m # n
      <3> DEFINE p == t.parent[m]
      <3>1. m \in Born(t) /\ p # NoNode /\ m # c /\ p \in L /\ m # Root /\ m \in Node
        BY <1>2, <1>4, <2>2
      <3>2. Rebases(Trail(t)[p], path, Trail(u)[p], to) /\ p \in Attached(t) /\ p \in Attached(u)
        BY <1>3, <1>8, <3>1
      <3>3. u.parent[m] = p /\ u.name[m] = t.name[m] /\ t.name[m] \in Name
        BY <1>1, <1>2, <2>2, <3>1 DEF Rooted, Trees
      <3>4. Trail(t)[m] = Append(Trail(t)[p], t.name[m])
        BY <1>2, <3>1, TrailDefined
      <3>5. Trail(u)[m] = Append(Trail(u)[p], t.name[m])
        BY <1>2, <3>1, <3>3, TrailDefined
      <3> HIDE DEF p
      <3> QED
        BY <1>7, <3>2, <3>3, <3>4, <3>5, RebasesStep
    <2> QED
      BY <2>1, <2>2
  <1>9. Attached(t) \subseteq Good
    <2> HIDE DEF Good
    <2> QED
      BY <1>2, <1>8, AlongParents
  <1> QED
    BY <1>5, <1>6, <1>9 DEF L, path, to

\* A node that is put elsewhere is relocated with all that is below it.
LEMMA PlacedIsRelocated ==
    ASSUME NEW t, NEW u, NEW n \in Attached(t) \ {Root}, NEW d, NEW k, Placed(t, u, n, d, k),
           u.kind = t.kind
    PROVE  Package!IsRelocation(Contents(t), Contents(u))
  <1> DEFINE c == Replaced(t, n, d, k)
             path == Trail(t)[n]
             to == Append(Trail(t)[d], k)
             C == Contents(t)
             S == Staying(t, n, c)
             L == Coming(t, u, n)
             N == {Package!Rebased(p, path, to) : p \in Package!Over(C, path)}
             D == (DOMAIN C \ (Package!Over(C, path) \cup Package!Over(C, to))) \cup N
             f == [p \in D |-> IF p \in N THEN C[Package!Rebased(p, to, path)] ELSE C[p]]
  <1>1. /\ TreeInv(t) /\ TreeInv(u) /\ d \in Attached(t) /\ k \in Name /\ Avoids(t, d, n)
        /\ IsDir(t, d) /\ n \in Attached(t)
    BY DEF Placed, Beside
  <1>2. /\ Attached(u) = S \cup L /\ \A m \in S : Trail(u)[m] = Trail(t)[m]
    BY PlacedAttached
  <1>3. /\ L = {m \in Attached(t) : ~ Avoids(t, m, n)}
        /\ \A m \in L : Rebases(Trail(t)[m], path, Trail(u)[m], to)
    BY ComingRebases
  <1>4. S = {m \in Attached(t) : Avoids(t, m, n) /\ (c = NoNode \/ Avoids(t, m, c))}
    BY DEF Staying, Beside
  <1>5. /\ DOMAIN C = {Trail(t)[m] : m \in Attached(t)}
        /\ \A m \in Attached(t) : C[Trail(t)[m]] = t.kind[m] /\ Trail(t)[m] \in Seq(Name)
        /\ \A m, l \in Attached(t) : Trail(t)[m] = Trail(t)[l] => m = l
        /\ \A m \in Attached(u) : Trail(u)[m] \in Seq(Name)
    BY <1>1, ContentsAre
  <1>6. \A m \in Attached(t) : Begins(path, Trail(t)[m]) <=> ~ Avoids(t, m, n)
    BY <1>1, BelowIsPrefix
  <1>7. path \in Seq(Name) /\ to \in Seq(Name) /\ path \in DOMAIN C
    BY <1>1, <1>5, ChildPath
  <1>8. \A m \in Attached(t) : Avoids(t, m, n) => (Begins(to, Trail(t)[m]) <=> c # NoNode /\ ~ Avoids(t, m, c))
    <2>1. CASE d = t.parent[n] /\ k = t.name[n]
      <3>1. Rooted(t) /\ n \in Born(t) /\ t.parent[n] # NoNode
        BY <1>1, <2>1, NodeAssumption DEF TreeInv, Sound, Attached, Born
      <3>2. path = to
        BY <2>1, <3>1, TrailDefined
      <3>3. c = NoNode
        BY <2>1 DEF Replaced
      <3> QED
        BY <1>6, <3>2, <3>3
    <2>2. CASE ~ (d = t.parent[n] /\ k = t.name[n])
      <3>1. c = t.child[d][k]
        BY <2>2 DEF Replaced
      <3> QED
        BY <1>1, <3>1, ChildPath
    <2> QED
      BY <2>1, <2>2
  <1>9. path # <<>>
    <2>1. Root \in Attached(t) /\ Trail(t)[Root] = <<>>
      BY <1>1, AttachedUp, TrailDefined DEF TreeInv, Sound
    <2> QED
      BY <1>1, <1>5, <2>1
  <1>10. Trail(t)[d] \in Package!Dirs(C) \ Package!Over(C, path)
    BY <1>1, <1>5, <1>6 DEF Package!Dirs, Package!Over, Begins, IsDir
  <1> HIDE DEF C, path, c, S, L
  <1> USE DEF Begins
  <1>11. \A m \in Attached(t) : Trail(t)[m] \in Package!Over(C, path) <=> m \in L
    BY <1>3, <1>5, <1>6 DEF Package!Over
  <1>12. \A m \in Attached(t) :
            m \in S <=> Trail(t)[m] \in DOMAIN C \ (Package!Over(C, path) \cup Package!Over(C, to))
    BY <1>4, <1>5, <1>6, <1>8 DEF Package!Over
  <1>13. \A m \in L : /\ Package!Rebased(Trail(t)[m], path, to) = Trail(u)[m]
                      /\ Package!Rebased(Trail(u)[m], to, path) = Trail(t)[m]
                      /\ Begins(to, Trail(u)[m])
    <2> HIDE DEF to
    <2> SUFFICES ASSUME NEW m \in L
                 PROVE  /\ Package!Rebased(Trail(t)[m], path, to) = Trail(u)[m]
                        /\ Package!Rebased(Trail(u)[m], to, path) = Trail(t)[m]
                        /\ Begins(to, Trail(u)[m])
      OBVIOUS
    <2> DEFINE p == Trail(t)[m]
               q == Trail(u)[m]
    <2>1. p \in Seq(Name) /\ q \in Seq(Name) /\ Rebases(p, path, q, to)
      BY <1>2, <1>3, <1>5
    <2>2. Rebases(q, to, p, path)
      BY <2>1, RebasesBack
    <2> HIDE DEF p, q
    <2>3. Package!Rebased(p, path, to) = q
      BY <1>7, <2>1, RebasesIs
    <2>4. Package!Rebased(q, to, path) = p /\ Begins(to, q)
      BY <1>7, <2>1, <2>2, RebasesIs
    <2> QED
      BY <2>3, <2>4 DEF p, q
  <1> HIDE DEF to
  <1>14. \A m \in L : Trail(u)[m] \in N
    BY <1>3, <1>11, <1>13
  <1>15. \A p \in N : \E m \in L : Trail(u)[m] = p
    <2> SUFFICES ASSUME NEW p \in Package!Over(C, path)
                 PROVE  \E m \in L : Trail(u)[m] = Package!Rebased(p, path, to)
      OBVIOUS
    <2>1. PICK m \in Attached(t) : Trail(t)[m] = p
      BY <1>5 DEF Package!Over
    <2>2. m \in L
      BY <1>11, <2>1
    <2> QED
      BY <1>13, <2>1, <2>2
  <1>16. \A m \in S : Trail(t)[m] \notin N
    <2> SUFFICES ASSUME NEW m \in S, Trail(t)[m] \in N PROVE FALSE
      OBVIOUS
    <2>1. PICK l \in L : Trail(u)[l] = Trail(t)[m]
      BY <1>15
    <2>2. Begins(to, Trail(t)[m])
      BY <1>13, <2>1
    <2> QED
      BY <1>4, <1>8, <2>2
  <1> HIDE DEF N
  <1>17. \A m \in Attached(u) : Trail(u)[m] \in D /\ f[Trail(u)[m]] = u.kind[m]
    <2>1. ASSUME NEW m \in S PROVE Trail(u)[m] \in D /\ f[Trail(u)[m]] = u.kind[m]
      BY <1>2, <1>4, <1>5, <1>12, <1>16
    <2>2. ASSUME NEW m \in L PROVE Trail(u)[m] \in D /\ f[Trail(u)[m]] = u.kind[m]
      BY <1>3, <1>5, <1>13, <1>14
    <2> QED
      BY <1>2, <2>1, <2>2
  <1>18. \A p \in D : \E m \in Attached(u) : Trail(u)[m] = p
    <2>1. ASSUME NEW p \in DOMAIN C \ (Package!Over(C, path) \cup Package!Over(C, to))
          PROVE  \E m \in S : Trail(t)[m] = p
      BY <1>5, <1>12, <2>1
    <2> QED
      BY <1>2, <1>15, <2>1
  <1>19. f = [p \in D |-> f[p]]
    OBVIOUS
  <1>20. Contents(u) = f
    <2> HIDE DEF D, f
    <2> QED
      BY <1>1, <1>17, <1>18, <1>19, ContentsIs
  <1>21. Contents(u) = Package!Relocate(C, path, to)
    BY <1>20 DEF Package!Relocate, N
  <1>22. \E q \in Package!Dirs(C) \ Package!Over(C, path), l \in Name :
             Contents(u) = Package!Relocate(C, path, Append(q, l))
    BY <1>1, <1>10, <1>21 DEF to
  <1>23. Package!IsRelocation(C, Contents(u))
    BY <1>7, <1>9, <1>22 DEF Package!IsRelocation
  <1> QED
    BY <1>23 DEF C

\* A move puts the node in its new directory, under the name it has.
LEMMA MovePlaces ==
    ASSUME NEW t, TreeInv(t), NEW n \in Attached(t) \ {Root},
           NEW d \in Beside(t, n), IsDir(t, d)
    PROVE  /\ Placed(t, SetParent(t, n, d), n, d, t.name[n])
           /\ SetParent(t, n, d).kind = t.kind
  <1> DEFINE v == Moving(t, n)
             u == SetParent(t, n, d)
             k == t.name[n]
             c == v.child[d][k]
  <1>1. u = Attach(v, n, d)
    <2>1. ~ Detached(t, n)
      BY DEF Attached
    <2> QED
      BY <2>1 DEF SetParent, Unlist, Moving, WithoutItem
  <1>2. MoveReady(t, v, n, d)
    BY MovingMayAttach DEF TreeInv
  <1>3. TreeInv(u)
    BY MoveIsSafe
  <1> HIDE DEF v, u
  <1>4. Attaches(v, u, n, d)
    BY <1>1, <1>2, AttachKeeps DEF MoveReady
  <1>5. /\ Rooted(t) /\ NoNode \notin Node /\ d \in Node /\ n \in Born(t) /\ Born(t) \subseteq Node
        /\ k \in Name
    BY NodeAssumption DEF TreeInv, Sound, Attached, Beside, Born, Rooted, Trees
  <1>6. v.kind = t.kind /\ v.name = t.name /\ v.parent = t.parent
    BY <1>2 DEF MoveReady
  <1>7. Replaced(t, n, d, k) = c
    BY <1>2, <1>5 DEF MoveReady, Replaced
  <1>8. /\ u.kind = t.kind /\ u.name = t.name
        /\ \A m \in Node : u.parent[m] = IF m = n THEN d ELSE IF m = c THEN NoNode ELSE t.parent[m]
    BY <1>4, <1>6 DEF Attaches
  <1>9. Born(u) = Born(t) \cup {n}
    BY <1>5, <1>8 DEF Born
  <1>10. Placed(t, u, n, d, k)
    BY <1>3, <1>5, <1>7, <1>8, <1>9 DEF Placed
  <1> QED
    BY <1>8, <1>10 DEF u

LEMMA MoveIsRelocation ==
    ASSUME NEW t, TreeInv(t), NEW n \in Attached(t) \ {Root},
           NEW d \in Beside(t, n), IsDir(t, d)
    PROVE  Package!IsRelocation(Contents(t), Contents(SetParent(t, n, d)))
  <1> DEFINE u == SetParent(t, n, d)
             k == t.name[n]
  <1>1. Placed(t, u, n, d, k) /\ u.kind = t.kind
    BY MovePlaces
  <1> HIDE DEF u, k
  <1>2. Package!IsRelocation(Contents(t), Contents(u))
    BY <1>1, PlacedIsRelocated
  <1> QED
    BY <1>2 DEF u

\* So does a rename, in the directory it is in.
LEMMA RenamePlaces ==
    ASSUME NEW t, TreeInv(t), NEW n \in Attached(t) \ {Root}, NEW k \in Name, k # t.name[n]
    PROVE  /\ Placed(t, Rename(t, n, k), n, t.parent[n], k)
           /\ Rename(t, n, k).kind = t.kind
  <1> DEFINE v == Renaming(t, n, k)
             u == Rename(t, n, k)
             d == t.parent[n]
             c == v.child[d][k]
  <1>1. u = Attach(v, n, d)
    <2>1. ~ Detached(t, n)
      BY DEF Attached
    <2> QED
      BY <2>1 DEF Rename, Renaming, Named
  <1>2. RenameReady(t, v, n, k)
    BY RenamingMayAttach DEF TreeInv
  <1>3. TreeInv(u) /\ n \in Born(t)
    BY RenameIsSafe DEF Attached
  <1>4. d \in Beside(t, n) /\ d \in Attached(t) /\ Rooted(t)
    BY ParentIsBeside DEF TreeInv, Sound
  <1> HIDE DEF v, u
  <1>5. Attaches(v, u, n, d)
    BY <1>1, <1>2, AttachKeeps DEF RenameReady
  <1>6. NoNode \notin Node /\ d \in Node /\ Born(t) \subseteq Node
    BY <1>4, NodeAssumption DEF Attached, Born
  <1>7. IsDir(t, d)
    BY <1>4, <1>6 DEF TreeInv, Sound
  <1>8. /\ v.kind = t.kind /\ v.name[n] = k
        /\ \A m \in Node : v.parent[m] = IF m = n THEN NoNode ELSE t.parent[m]
        /\ \A m \in Node : v.name[m] = IF m = n THEN k ELSE t.name[m]
    BY <1>2, <1>3, <1>6 DEF RenameReady
  <1>9. Replaced(t, n, d, k) = c
    BY <1>2, <1>6 DEF RenameReady, Replaced
  <1>10. /\ u.kind = t.kind /\ u.name = v.name
         /\ \A m \in Node : u.parent[m] = IF m = n THEN d ELSE IF m = c THEN NoNode ELSE v.parent[m]
    BY <1>5, <1>8 DEF Attaches
  <1>11. \A m \in Node : u.parent[m] = IF m = n THEN d ELSE IF m = c THEN NoNode ELSE t.parent[m]
    BY <1>8, <1>10
  <1>12. Born(u) = Born(t) \cup {n}
    BY <1>3, <1>10 DEF Born
  <1>13. \A m \in Node : u.name[m] = IF m = n THEN k ELSE t.name[m]
    BY <1>8, <1>10
  <1> HIDE DEF c, d
  <1>14. Placed(t, u, n, d, k)
    BY <1>3, <1>4, <1>7, <1>9, <1>10, <1>11, <1>12, <1>13 DEF Placed
  <1> QED
    BY <1>10, <1>14 DEF u, d

LEMMA RenameIsRelocation ==
    ASSUME NEW t, TreeInv(t), NEW n \in Attached(t) \ {Root}, NEW k \in Name, k # t.name[n]
    PROVE  Package!IsRelocation(Contents(t), Contents(Rename(t, n, k)))
  <1> DEFINE u == Rename(t, n, k)
             d == t.parent[n]
  <1>1. Placed(t, u, n, d, k) /\ u.kind = t.kind
    BY RenamePlaces
  <1> HIDE DEF u, d
  <1>2. Package!IsRelocation(Contents(t), Contents(u))
    BY <1>1, PlacedIsRelocated
  <1> QED
    BY <1>2 DEF u

\* A new name of a node that is detached is not seen in the package.
LEMMA RenameLeaves ==
    ASSUME NEW t, TreeInv(t), NEW n \in Born(t) \ {Root}, NEW k \in Name,
           n \notin Attached(t) \/ k = t.name[n]
    PROVE  Contents(Rename(t, n, k)) = Contents(t)
  <1> DEFINE u == Rename(t, n, k)
  <1>1. CASE k = t.name[n]
    BY <1>1 DEF Rename
  <1>2. CASE k # t.name[n]
    <2>1. Detached(t, n)
      BY <1>2 DEF Attached
    <2>2. u = [t EXCEPT !.name[n] = k]
      BY <1>2, <2>1 DEF Rename
    <2>3. TreeInv(u) /\ Rooted(t) /\ Rooted(u) /\ t \in Trees
      BY RenameIsSafe DEF TreeInv, Sound, Rooted
    <2>4. /\ u.kind = t.kind /\ u.parent = t.parent
          /\ \A m \in Node \ {n} : u.name[m] = t.name[m]
      BY <2>2, <2>3 DEF Trees
    <2> HIDE DEF u
    <2>5. Attached(u) = Attached(t) /\ Born(u) = Born(t)
      BY <2>4, AvoidsByParents
    <2> DEFINE S == Attached(t)
    <2>6. n \notin S /\ S \subseteq Born(t) /\ S \subseteq Node
      BY <2>1 DEF Attached, Born
    <2>7. \A m \in S : m = Root \/ t.parent[m] \in S
      BY <2>3, <2>6, AttachedUp
    <2>8. \A m \in S : u.parent[m] = t.parent[m] /\ u.name[m] = t.name[m]
      BY <2>4, <2>6
    <2>9. S \in SUBSET Attached(t) /\ S \subseteq Born(u)
      BY <2>5, <2>6
    <2>10. \A m \in S : Trail(u)[m] = Trail(t)[m]
      <3> HIDE DEF S
      <3> QED
        BY <2>3, <2>7, <2>8, <2>9, SameTrail
    <2>11. Contents(u) = Contents(t)
      BY <2>3, <2>4, <2>5, <2>10, ContentsStay
    <2> QED
      BY <2>11 DEF u
  <1> QED
    BY <1>1, <1>2

LEMMA EmptyPackage == Contents(EmptyTree) = [p \in {<<>>} |-> "dir"]
  <1> DEFINE t == EmptyTree
             f == [p \in {<<>>} |-> "dir"]
  <1>1. TreeInv(t)
    BY EmptyIsSound
  <1>2. t.kind = [n \in Node |-> IF n = Root THEN "dir" ELSE "unborn"]
    BY DEF EmptyTree
  <1> HIDE DEF t
  <1>3. Born(t) = {Root} /\ t.kind[Root] = "dir"
    BY <1>2, NodeAssumption DEF Born
  <1>4. Rooted(t)
    BY <1>1 DEF TreeInv, Sound
  <1>5. Attached(t) = {Root} /\ Trail(t)[Root] = <<>>
    BY <1>3, <1>4, AttachedUp, TrailDefined
  <1>6. f = [p \in {<<>>} |-> f[p]] /\ f[<<>>] = "dir"
    OBVIOUS
  <1> HIDE DEF f
  <1>7. Contents(t) = f
    BY <1>1, <1>3, <1>5, <1>6, ContentsIs
  <1> QED
    BY <1>7 DEF t, f

\* Every step does to the paths of the package what one of its operations says.
LEMMA StepIsAllowed ==
    ASSUME Inv, Next
    PROVE  \/ /\ rw = TRUE /\ rw' = rw
              /\ \/ Package!IsPut(Contents(tree), Contents(tree'))
                 \/ Package!IsDrop(Contents(tree), Contents(tree'))
                 \/ Package!IsRelocation(Contents(tree), Contents(tree'))
           \/ rw' = FALSE /\ Contents(tree') = Contents(tree)
           \/ rw' = rw /\ Contents(tree') = Contents(tree)
  <1> DEFINE c == Contents(tree)
             e == Contents(tree')
             Does == /\ rw = TRUE /\ rw' = rw
                     /\ \/ Package!IsPut(c, e)
                        \/ Package!IsDrop(c, e)
                        \/ Package!IsRelocation(c, e)
             Stays == rw' = rw /\ e = c
  <1>1. TreeInv(tree) /\ rw \in BOOLEAN /\ Attached(tree) \subseteq Born(tree) /\ Born(tree) \subseteq Node
        /\ Rooted(tree)
    BY AttachedUp DEF Inv, TreeInv, Sound, Born
  <1>2. ASSUME NEW d \in Attached(tree), IsDir(tree, d), NEW k \in Name,
               NEW kind \in {"dir", "file", "symlink"}, Unborn(tree) # {},
               tree' = Create(tree, d, k, kind)
        PROVE  Package!IsPut(c, e)
    BY <1>1, <1>2, CreateIsPut, PutIsPut
  <1>3. ASSUME NEW d \in Node, NEW k \in Name, MkDir(d, k) PROVE Does
    BY <1>1, <1>2, <1>3 DEF MkDir, MayAddTo, MoreNodes
  <1>4. ASSUME NEW d \in Node, NEW k \in Name, NEW kind \in {"file", "symlink"},
               MayAddTo(d), AddOver(d, k, kind), UNCHANGED rw
        PROVE  Does
    <2>1. d \in Attached(tree) /\ IsDir(tree, d) /\ Unborn(tree) # {} /\ rw = TRUE /\ rw' = rw
      BY <1>1, <1>4 DEF MayAddTo, MoreNodes
    <2>2. CASE tree.child[d][k] = NoNode
      BY <1>2, <1>4, <2>1, <2>2 DEF AddOver
    <2>3. CASE tree.child[d][k] # NoNode
      <3>1. /\ Empty(tree, tree.child[d][k])
            /\ tree' = Create(Unlinked(tree, tree.child[d][k]), d, k, kind)
        BY <1>4, <2>3 DEF AddOver
      <3>2. e = Package!Put(c, Append(Trail(tree)[d], k), kind)
        BY <1>1, <2>1, <2>3, <3>1, ReplaceIsPut
      <3>3. Package!IsPut(c, e)
        <4> HIDE DEF e
        <4> QED
          BY <1>1, <2>1, <3>2, PutIsPut
      <3> QED
        BY <2>1, <3>3
    <2> QED
      BY <2>2, <2>3
  <1>5. ASSUME NEW d \in Node, NEW k \in Name, AddFile(d, k) \/ AddSymlink(d, k) PROVE Does
    <2> HIDE DEF Does
    <2> QED
      BY <1>4, <1>5 DEF AddFile, AddSymlink
  <1>6. ASSUME NEW d \in Node, NEW k \in Name, InsertFile(d, k) PROVE Does
    BY <1>1, <1>2, <1>6 DEF InsertFile, MayAddTo, MoreNodes
  <1>7. ASSUME NEW n \in Node, NEW k \in Name, SetName(n, k) PROVE Does \/ Stays
    <2>1. n \in Born(tree) \ {Root} /\ tree' = Rename(tree, n, k) /\ rw' = rw /\ Writable(n)
      BY <1>7 DEF SetName
    <2>2. CASE n \notin Attached(tree) \/ k = tree.name[n]
      BY <1>1, <2>1, <2>2, RenameLeaves
    <2>3. CASE n \in Attached(tree) /\ k # tree.name[n]
      <3>1. rw = TRUE
        BY <1>1, <2>1, <2>3 DEF Writable, Attached
      <3> QED
        BY <1>1, <2>1, <2>3, <3>1, RenameIsRelocation
    <2> QED
      BY <2>2, <2>3
  <1>8. ASSUME NEW n \in Node, NEW recursive \in BOOLEAN, Unlink(n, recursive) PROVE Does
    BY <1>1, <1>8, DetachShrinks, ShrunkIsDrop DEF Unlink
  <1>9. ASSUME NEW n \in Node, PruneIfEmptyDir(n) PROVE Does \/ Stays
    <2>1. /\ n \in Attached(tree) /\ rw = TRUE /\ rw' = rw /\ tree' = Pruned(tree, n)
      BY <1>1, <1>9 DEF PruneIfEmptyDir
    <2>2. tree' = tree \/ \E top \in Attached(tree) \ {Root} : Shrunk(tree, tree', top)
      BY <1>1, <2>1, PruneIsSafe
    <2> QED
      BY <1>1, <2>1, <2>2, ShrunkIsDrop
  <1>10. ASSUME NEW n \in Node, NEW d \in Node, MoveTo(n, d) PROVE Does
    <2>1. d \in Beside(tree, n) /\ rw = TRUE
      BY <1>1, <1>10 DEF MoveTo, Below, Beside
    <2> QED
      BY <1>1, <1>10, <2>1, MoveIsRelocation DEF MoveTo
  <1>11. ASSUME Freeze PROVE rw' = FALSE /\ e = c
    BY <1>11 DEF Freeze
  <1> HIDE DEF Does, Stays
  <1>12. Does \/ Stays \/ (rw' = FALSE /\ e = c)
    BY <1>3, <1>5, <1>6, <1>7, <1>8, <1>9, <1>10, <1>11 DEF Next
  <1> QED
    BY <1>12 DEF Does, Stays

\* The file system of nodes implements the map from paths to what is there:
\* every operation puts, drops or relocates one path with all that is below it,
\* changes no other, and does so only until the tree is made read-only.
THEOREM TreeImplementsPackage == Spec => ImplementsPackageTree
  <1>1. Init => Package!InitTree
    <2> SUFFICES ASSUME Init PROVE Package!InitTree
      OBVIOUS
    <2>1. Contents(tree) = [p \in {<<>>} |-> "dir"]
      BY EmptyPackage DEF Init
    <2>2. (~ rw) = FALSE
      BY DEF Init
    <2> QED
      BY <2>1, <2>2 DEF Package!InitTree
  <1>2. Inv /\ [Next]_vars => [Package!Change \/ Package!Freeze]_(Package!treeVars)
    <2> SUFFICES ASSUME Inv, [Next]_vars
                 PROVE  [Package!Change \/ Package!Freeze]_(Package!treeVars)
      OBVIOUS
    <2>1. CASE UNCHANGED vars
      BY <2>1 DEF vars, Package!treeVars
    <2>2. CASE Next
      <3>1. CASE /\ rw = TRUE /\ rw' = rw
                 /\ \/ Package!IsPut(Contents(tree), Contents(tree'))
                    \/ Package!IsDrop(Contents(tree), Contents(tree'))
                    \/ Package!IsRelocation(Contents(tree), Contents(tree'))
        BY <3>1 DEF Package!Change
      <3>2. CASE rw' = FALSE /\ Contents(tree') = Contents(tree)
        BY <3>2 DEF Package!Freeze
      <3>3. CASE rw' = rw /\ Contents(tree') = Contents(tree)
        BY <3>3 DEF Package!treeVars
      <3> QED
        BY <2>2, <3>1, <3>2, <3>3, StepIsAllowed
    <2> QED
      BY <2>1, <2>2
  <1> QED
    BY <1>1, <1>2, TreeIsSound, PTL DEF Spec, ImplementsPackageTree, Package!TreeSpec

-----------------------------------------------------------------------------
(* Changes of a tree by the body of a loop.  A child that was taken off by   *)
(* its name is not listed by its parent any more, so that the tree is sound, *)
(* but need not be complete.                                                *)

\* Nodes were taken off, and nothing else.
TakenOff(t, u) ==
    /\ Sound(u, Attached(u))
    /\ u.kind = t.kind
    /\ \A m \in Node : u.parent[m] \in {t.parent[m], NoNode}

\* What is detached stays so, and a new node is listed where there is a path.
Evolved(t, u) ==
    /\ Sound(u, Attached(u))
    /\ \A m \in Born(t) : m \in Born(u) /\ u.kind[m] = t.kind[m]
    /\ \A m \in Born(t) \ Attached(t) : u.parent[m] \in {t.parent[m], NoNode}
    /\ \A m \in Born(u) \ Born(t) :
           u.parent[m] \in Attached(t) /\ u.child[u.parent[m]][u.name[m]] = m

LEMMA OffEvolves ==
    ASSUME NEW t, NEW u, TakenOff(t, u)
    PROVE  Born(u) = Born(t) /\ Evolved(t, u)
  <1>1. Born(u) = Born(t) /\ Born(t) \subseteq Node
    BY DEF TakenOff, Born
  <1> QED
    BY <1>1 DEF TakenOff, Evolved

\* What is detached stays detached.
LEMMA DetachedStays ==
    ASSUME NEW t, Rooted(t), NEW u, Evolved(t, u)
    PROVE  \A m \in Born(t) \ Attached(t) : m \in Born(u) \ Attached(u)
  <1> DEFINE S == Born(t) \ Attached(t)
  <1>1. Born(t) \subseteq Born(u) /\ Root \in Attached(t)
    BY AttachedUp DEF Evolved
  <1>2. \A m \in S : m # Root /\ t.parent[m] \in S \cup {NoNode}
    <2> SUFFICES ASSUME NEW m \in S, t.parent[m] # NoNode PROVE t.parent[m] \in S
      BY <1>1
    <2>1. t.parent[m] \in Born(t)
      BY DEF Rooted
    <2> QED
      BY <1>1, <2>1, AttachedUp
  <1>3. \A m \in S : u.parent[m] \in S \cup {NoNode}
    BY <1>2 DEF Evolved
  <1>4. S \in SUBSET (Born(u) \ {Root})
    BY <1>1
  <1> SUFFICES ASSUME NEW m \in S PROVE Detached(u, m)
    BY <1>1 DEF Attached
  <1> HIDE DEF S
  <1> QED
    BY <1>3, <1>4 DEF Detached, Avoids

LEMMA OffThenEvolves ==
    ASSUME NEW t, Rooted(t), NEW v, TakenOff(t, v), NEW u, Evolved(v, u)
    PROVE  Evolved(t, u)
  <1>1. Born(v) = Born(t) /\ Evolved(t, v)
    BY OffEvolves
  <1>2. \A m \in Born(t) \ Attached(t) : m \in Born(v) \ Attached(v)
    BY <1>1, DetachedStays
  <1>3. Born(t) \subseteq Node /\ v.kind = t.kind
    BY DEF Born, TakenOff
  <1>4. \A m \in Born(t) \ Attached(t) : u.parent[m] \in {t.parent[m], NoNode}
    <2> TAKE m \in Born(t) \ Attached(t)
    <2>1. u.parent[m] \in {v.parent[m], NoNode} /\ v.parent[m] \in {t.parent[m], NoNode}
      BY <1>2, <1>3 DEF Evolved, TakenOff
    <2> QED
      BY <2>1
  <1>5. \A m \in Attached(v) : m \in Attached(t)
    BY <1>1, <1>2 DEF Attached
  <1> QED
    BY <1>1, <1>3, <1>4, <1>5 DEF Evolved

\* unlink
LEMMA DetachTakesOff ==
    ASSUME NEW t, Sound(t, Attached(t)), NEW n \in Attached(t) \ {Root}
    PROVE  /\ TakenOff(t, Detach(t, n))
           /\ t.parent[n] \in Attached(Detach(t, n))
  <1> DEFINE u == Detach(t, n)
  <1>1. Rooted(t) /\ t \in Trees /\ Attached(t) \subseteq Born(t) /\ Born(t) \subseteq Node
    BY AttachedUp DEF Sound, Rooted, Born
  <1>2. Detaches(t, u, n) /\ Sound(u, Attached(t))
    BY DetachKeeps
  <1> HIDE DEF u
  <1>3. Sound(u, Attached(u)) /\ Rooted(u)
    BY <1>2, Narrow DEF Sound
  <1>4. \A m \in Node : u.parent[m] = IF m = n THEN NoNode ELSE t.parent[m]
    BY <1>1, <1>2 DEF Detaches, Trees
  <1>5. Born(u) = Born(t) /\ u.name = t.name
    BY <1>2 DEF Detaches, Born
  <1>6. t.parent[n] \in Beside(t, n)
    BY <1>1, ParentIsBeside
  <1>7. \A m \in Born(t) \ {n} : u.parent[m] = t.parent[m] /\ u.name[m] = t.name[m]
    BY <1>1, <1>4, <1>5
  <1>8. \A m \in Beside(t, n) : m \in Beside(u, n)
    BY <1>1, <1>3, <1>5, <1>7, BesideStays
  <1>9. TakenOff(t, u)
    BY <1>2, <1>3, <1>4 DEF TakenOff, Detaches
  <1> QED
    BY <1>6, <1>8, <1>9 DEF Beside, u

LEMMA OffTrans ==
    ASSUME NEW t, NEW v, TakenOff(t, v), NEW u, TakenOff(v, u)
    PROVE  TakenOff(t, u)
  <1>1. \A m \in Node : u.parent[m] \in {t.parent[m], NoNode}
    <2> TAKE m \in Node
    <2>1. u.parent[m] \in {v.parent[m], NoNode} /\ v.parent[m] \in {t.parent[m], NoNode}
      BY DEF TakenOff
    <2> QED
      BY <2>1
  <1> QED
    BY <1>1 DEF TakenOff

\* prune_if_empty_dir
LEMMA PruneTakesOff ==
    ASSUME NEW t, Sound(t, Attached(t)), NEW n \in Attached(t)
    PROVE  TakenOff(t, Pruned(t, n))
  <1> DEFINE V == {e \in Trees \X Node : TakenOff(t, e[1]) /\ e[2] \in Attached(e[1])}
  <1>1. t \in Trees /\ Attached(t) \subseteq Node
    BY DEF Sound, Rooted, Attached, Born
  <1>2. TakenOff(t, t)
    BY DEF TakenOff
  <1>3. <<t, n>> \in V
    BY <1>1, <1>2
  <1>4. ASSUME NEW e \in V PROVE PruneStep(e) \in V
    <2>1. CASE e[2] = Root \/ ~ Empty(e[1], e[2])
      BY <2>1 DEF PruneStep
    <2>2. CASE e[2] # Root /\ Empty(e[1], e[2])
      <3>1. PICK v, at : v = e[1] /\ at = e[2]
        OBVIOUS
      <3>2. PICK u, p : u = Detach(v, at) /\ p = v.parent[at]
        OBVIOUS
      <3>3. PruneStep(e) = <<u, p>>
        BY <2>2, <3>1, <3>2 DEF PruneStep
      <3>4. TakenOff(t, v) /\ at \in Attached(v) \ {Root} /\ Sound(v, Attached(v))
        BY <2>2, <3>1 DEF TakenOff
      <3>5. TakenOff(v, u) /\ p \in Attached(u)
        BY <3>2, <3>4, DetachTakesOff
      <3>6. TakenOff(t, u) /\ u \in Trees /\ p \in Node
        BY <3>4, <3>5, OffTrans DEF TakenOff, Sound, Rooted, Attached, Born
      <3> QED
        BY <3>3, <3>5, <3>6
    <2> QED
      BY <2>1, <2>2
  <1>5. \A e \in V : TakenOff(t, e[1])
    OBVIOUS
  <1> HIDE DEF V
  <1>6. \E g \in [0 .. Cardinality(Node) -> V] : PruneRun(t, n, g)
    BY <1>3, <1>4, PruneRuns
  <1>7. PICK g \in [0 .. Cardinality(Node) -> V] : PruneRun(t, n, g)
    BY <1>6
  <1>8. Cardinality(Node) \in 0 .. Cardinality(Node)
    BY NodeAssumption, FS_CardinalityType
  <1>9. Pruned(t, n) = g[Cardinality(Node)][1]
    BY <1>7 DEF PruneRun
  <1> QED
    BY <1>5, <1>7, <1>8, <1>9

\* The constructors.
LEMMA CreateEvolves ==
    ASSUME NEW t, Sound(t, Attached(t)), Unborn(t) # {}, NEW d \in Attached(t), IsDir(t, d),
           NEW k \in Name, NEW kind \in {"dir", "file", "symlink"}
    PROVE  Evolved(t, Create(t, d, k, kind))
  <1> DEFINE n == Fresh(t)
             v == Made(t, n, k, kind)
             u == Create(t, d, k, kind)
             X == Attached(t) \cup {n}
  <1>1. u = Attach(v, n, d)
    BY DEF Create, Made
  <1>2. n \in Unborn(t)
    BY DEF Fresh
  <1> HIDE DEF n
  <1>3. Ready(t, v, X, n, d, k, kind)
    BY <1>2, MadeMayAttach
  <1> HIDE DEF v, u, X
  <1>4. MayAttach(v, X, n, d) /\ v.parent = t.parent /\ Born(v) = Born(t) \cup {n}
        /\ \A m \in Node : v.kind[m] = IF m = n THEN kind ELSE t.kind[m]
    BY <1>3 DEF Ready
  <1>5. Attaches(v, u, n, d) /\ Sound(u, X)
    BY <1>1, <1>4, AttachKeeps
  <1>6. Sound(u, Attached(u))
    BY <1>5, Narrow
  <1>7. Born(u) = Born(t) \cup {n} /\ Born(t) \subseteq Node /\ Attached(t) \subseteq Born(t)
        /\ d \in Node /\ n \in Node /\ n \notin Born(t)
    BY <1>2, <1>4, <1>5 DEF Attaches, Born, Attached, Unborn
  <1>8. \A m \in Node \ {n} : u.parent[m] \in {t.parent[m], NoNode}
    BY <1>4, <1>5 DEF Attaches
  <1>9. u.name = v.name /\ u.parent[n] = d
    BY <1>5, <1>7 DEF Attaches
  <1>10. v.name[n] \in Name
    BY <1>4, <1>7 DEF MayAttach, Sound, Rooted, Trees
  <1>11. u.child[u.parent[n]][u.name[n]] = n
    BY <1>5, <1>7, <1>9, <1>10 DEF Attaches
  <1>12. \A m \in Born(t) : m \in Born(u) /\ u.kind[m] = t.kind[m]
    BY <1>4, <1>5, <1>7 DEF Attaches
  <1> QED
    BY <1>6, <1>7, <1>8, <1>9, <1>11, <1>12 DEF Evolved, u

\* add_file and add_symlink, over what is there.
LEMMA ReplaceEvolves ==
    ASSUME NEW t, Sound(t, Attached(t)), Unborn(t) # {}, NEW d \in Attached(t), IsDir(t, d),
           NEW k \in Name, NEW kind \in {"dir", "file", "symlink"}, t.child[d][k] # NoNode
    PROVE  Evolved(t, Create(Unlinked(t, t.child[d][k]), d, k, kind))
  <1>1. PICK e : e = t.child[d][k]
    OBVIOUS
  <1>2. PICK v : v = Detach(t, e)
    OBVIOUS
  <1>3. e \in Attached(t) /\ t.parent[e] = d /\ Rooted(t)
    BY <1>1 DEF Sound
  <1>4. e # Root
    BY <1>3, NodeAssumption DEF Rooted, Attached, Born
  <1>5. Unlinked(t, e) = v
    BY <1>2, <1>3 DEF Unlinked, Attached
  <1>6. TakenOff(t, v) /\ d \in Attached(v)
    BY <1>2, <1>3, <1>4, DetachTakesOff
  <1>7. Sound(v, Attached(v)) /\ Unborn(v) # {} /\ IsDir(v, d)
    BY <1>6 DEF TakenOff, Unborn, Born, IsDir
  <1>8. Evolved(v, Create(v, d, k, kind))
    BY <1>6, <1>7, CreateEvolves
  <1> QED
    BY <1>1, <1>3, <1>5, <1>6, <1>8, OffThenEvolves

\* What is given to another directory, or back to its own, was attached before.
LEMMA AttachEvolves ==
    ASSUME NEW t, Rooted(t), NEW v, NEW n \in Attached(t), NEW d,
           MayAttach(v, Attached(t), n, d), v.kind = t.kind,
           \A m \in Node : m # n => v.parent[m] = t.parent[m]
    PROVE  Evolved(t, Attach(v, n, d))
  <1> DEFINE u == Attach(v, n, d)
  <1>1. Attaches(v, u, n, d) /\ Sound(u, Attached(t))
    BY AttachKeeps
  <1> HIDE DEF u
  <1>2. Sound(u, Attached(u))
    BY <1>1, Narrow
  <1>3. u.kind = t.kind /\ Born(u) = Born(t) /\ Born(t) \subseteq Node
    BY <1>1 DEF Attaches, Born
  <1>4. \A m \in Node : m # n => u.parent[m] \in {t.parent[m], NoNode}
    BY <1>1 DEF Attaches
  <1> QED
    BY <1>2, <1>3, <1>4 DEF Evolved, u

LEMMA MoveEvolves ==
    ASSUME NEW t, Sound(t, Attached(t)), NEW n \in Attached(t) \ {Root},
           NEW d \in Beside(t, n), IsDir(t, d)
    PROVE  Evolved(t, SetParent(t, n, d))
  <1> DEFINE v == Moving(t, n)
  <1>1. SetParent(t, n, d) = Attach(v, n, d)
    BY DEF SetParent, Moving, Unlist, WithoutItem, Attached
  <1>2. MoveReady(t, v, n, d)
    BY MovingMayAttach
  <1> HIDE DEF v
  <1>3. MayAttach(v, Attached(t), n, d) /\ v.kind = t.kind /\ v.parent = t.parent
    BY <1>2 DEF MoveReady
  <1>4. Rooted(t) /\ \A m \in Node : m # n => v.parent[m] = t.parent[m]
    BY <1>3 DEF Sound
  <1> QED
    BY <1>1, <1>3, <1>4, AttachEvolves

LEMMA RenameEvolves ==
    ASSUME NEW t, Sound(t, Attached(t)), NEW n \in Born(t) \ {Root}, NEW k \in Name
    PROVE  Evolved(t, Rename(t, n, k))
  <1>1. Rooted(t) /\ Attached(t) \subseteq Born(t)
    BY AttachedUp DEF Sound
  <1>2. CASE k = t.name[n]
    BY <1>2, OffEvolves DEF Rename, TakenOff
  <1>3. CASE k # t.name[n] /\ Detached(t, n)
    <2> DEFINE u == Named(t, n, k)
    <2>1. Rename(t, n, k) = u
      BY <1>3 DEF Rename, Named
    <2>2. n \notin Attached(t)
      BY <1>3 DEF Attached
    <2>3. \A e \in Attached(t), l \in Name : t.child[e][l] # n
      BY <1>1, <2>2, NodeAssumption DEF Sound, Born
    <2>4. u.kind = t.kind /\ u.parent = t.parent /\ Sound(u, Attached(t))
      BY <2>2, <2>3, NamedKeeps
    <2> HIDE DEF u
    <2>5. Sound(u, Attached(u))
      BY <2>4, Narrow
    <2>6. TakenOff(t, u)
      BY <2>4, <2>5 DEF TakenOff
    <2> QED
      BY <2>1, <2>6, OffEvolves
  <1>4. CASE k # t.name[n] /\ ~ Detached(t, n)
    <2> DEFINE v == Renaming(t, n, k)
    <2>1. Rename(t, n, k) = Attach(v, n, t.parent[n])
      BY <1>4 DEF Rename, Renaming, Named
    <2>2. n \in Attached(t) \ {Root}
      BY <1>4 DEF Attached
    <2>3. RenameReady(t, v, n, k)
      BY <2>2, RenamingMayAttach
    <2> HIDE DEF v
    <2>4. /\ MayAttach(v, Attached(t), n, t.parent[n]) /\ v.kind = t.kind
          /\ \A m \in Node : m # n => v.parent[m] = t.parent[m]
      BY <2>3 DEF RenameReady
    <2> QED
      BY <1>1, <2>1, <2>2, <2>4, AttachEvolves
  <1> QED
    BY <1>2, <1>3, <1>4

\* Asking for a path, and taking a child off the list only.
LEMMA AskEvolves ==
    ASSUME NEW t, Sound(t, Attached(t)), NEW n \in Born(t)
    PROVE  Evolved(t, ReadPath(t, n))
  <1> DEFINE u == ReadPath(t, n)
  <1>1. SameTree(t, u) /\ Sound(u, Attached(t))
    BY ReadPathKeeps
  <1> HIDE DEF u
  <1>2. Sound(u, Attached(u))
    BY <1>1, Narrow
  <1> QED
    BY <1>1, <1>2, OffEvolves DEF TakenOff, SameTree, u

LEMMA DelItemEvolves ==
    ASSUME NEW t, Sound(t, Attached(t)), NEW d \in Node, NEW k \in Name
    PROVE  Evolved(t, WithoutItem(t, d, k))
  <1> DEFINE u == WithoutItem(t, d, k)
  <1>1. u.kind = t.kind /\ u.parent = t.parent /\ Sound(u, Attached(t))
    BY UnlistKeeps
  <1> HIDE DEF u
  <1>2. Sound(u, Attached(u))
    BY <1>1, Narrow
  <1> QED
    BY <1>1, <1>2, OffEvolves DEF TakenOff, u

\* Whatever the body of a loop does.
Changing ==
    \/ Next
    \/ \E d \in Node, k \in Name : DelItem(d, k)
    \/ \E n \in Node : AskPath(n)

LEMMA ChangeEvolves ==
    ASSUME Sound(tree, Attached(tree)), Changing
    PROVE  Evolved(tree, tree')
  <1>1. Attached(tree) \subseteq Born(tree) /\ Born(tree) \subseteq Node
    BY DEF Attached, Born
  <1>2. ASSUME NEW d \in Node, NEW k \in Name, MkDir(d, k) PROVE Evolved(tree, tree')
    BY <1>2, CreateEvolves DEF MkDir, MayAddTo, MoreNodes
  <1>3. ASSUME NEW d \in Node, NEW k \in Name, NEW kind \in {"file", "symlink"},
               MayAddTo(d), AddOver(d, k, kind)
        PROVE  Evolved(tree, tree')
    <2>1. CASE tree.child[d][k] = NoNode
      BY <1>3, <2>1, CreateEvolves DEF AddOver, MayAddTo, MoreNodes
    <2>2. CASE tree.child[d][k] # NoNode
      BY <1>3, <2>2, ReplaceEvolves DEF AddOver, MayAddTo, MoreNodes
    <2> QED
      BY <2>1, <2>2
  <1>4. ASSUME NEW d \in Node, NEW k \in Name, AddFile(d, k) \/ AddSymlink(d, k)
        PROVE  Evolved(tree, tree')
    BY <1>3, <1>4 DEF AddFile, AddSymlink
  <1>5. ASSUME NEW d \in Node, NEW k \in Name, InsertFile(d, k) PROVE Evolved(tree, tree')
    BY <1>5, CreateEvolves DEF InsertFile, MayAddTo, MoreNodes
  <1>6. ASSUME NEW n \in Node, NEW k \in Name, SetName(n, k) PROVE Evolved(tree, tree')
    BY <1>6, RenameEvolves DEF SetName
  <1>7. ASSUME NEW n \in Node, NEW recursive \in BOOLEAN, Unlink(n, recursive)
        PROVE  Evolved(tree, tree')
    BY <1>7, DetachTakesOff, OffEvolves DEF Unlink
  <1>8. ASSUME NEW n \in Node, PruneIfEmptyDir(n) PROVE Evolved(tree, tree')
    BY <1>8, PruneTakesOff, OffEvolves DEF PruneIfEmptyDir
  <1>9. ASSUME NEW n \in Node, NEW d \in Node, MoveTo(n, d) PROVE Evolved(tree, tree')
    <2>1. d \in Beside(tree, n)
      BY <1>9 DEF MoveTo, Below, Beside
    <2> QED
      BY <1>9, <2>1, MoveEvolves DEF MoveTo
  <1>10. ASSUME Freeze PROVE Evolved(tree, tree')
    BY <1>10, OffEvolves DEF Freeze, TakenOff
  <1>11. ASSUME NEW d \in Node, NEW k \in Name, DelItem(d, k) PROVE Evolved(tree, tree')
    BY <1>11, DelItemEvolves DEF DelItem
  <1>12. ASSUME NEW n \in Node, AskPath(n) PROVE Evolved(tree, tree')
    BY <1>12, AskEvolves DEF AskPath
  <1> QED
    BY <1>2, <1>4, <1>5, <1>6, <1>7, <1>8, <1>9, <1>10, <1>11, <1>12 DEF Changing, Next

-----------------------------------------------------------------------------
(* The list that a walk makes of a directory.                                *)

LEMMA ConnectedIs ==
    ASSUME NEW t, NEW N
    PROVE  /\ Connected(t, N) \subseteq N
           /\ \A n \in Connected(t, N) : n = Root \/ t.parent[n] \in Connected(t, N)
           /\ \A S \in SUBSET N :
                  (\A n \in S : n = Root \/ t.parent[n] \in S) => S \subseteq Connected(t, N)
  BY DEF Connected

\* It has each child once, if that has one name.
ListsOnce(t, d, s) ==
    /\ s \in Seq(Node)
    /\ \A i \in 1 .. Len(s) : \E k \in Name : t.child[d][k] # NoNode /\ s[i] = t.child[d][k]
    /\ \A k \in Name : t.child[d][k] # NoNode => \E i \in 1 .. Len(s) : s[i] = t.child[d][k]
    /\ (\A k, l \in Name : t.child[d][k] # NoNode /\ t.child[d][k] = t.child[d][l] => k = l) =>
           \A i, j \in 1 .. Len(s) : s[i] = s[j] => i = j

LEMMA SortedIs ==
    ASSUME NEW t \in Trees, NEW d \in Node
    PROVE  ListsOnce(t, d, SortedChildren(t, d))
  <1> DEFINE L == {k \in Name : t.child[d][k] # NoNode}
             Upto(k) == {l \in L : NameOrder[l] <= NameOrder[k]}
             N == Cardinality(L)
             place == [k \in L |-> Cardinality(Upto(k))]
             s == SortedChildren(t, d)
  <1>1. L \subseteq Name /\ IsFiniteSet(L) /\ N \in Nat
    BY NodeAssumption, FS_Subset, FS_CardinalityType
  <1>2. \A k \in Name : NameOrder[k] \in Nat
    BY WalkAssumption
  <1>3. \A k \in L : t.child[d][k] \in Node
    BY DEF Trees
  <1>4. s = [i \in 1 .. N |-> t.child[d][CHOOSE k \in L : Cardinality(Upto(k)) = i]]
    BY DEF SortedChildren
  <1>5. \A k \in L : Upto(k) \subseteq L /\ k \in Upto(k) /\ IsFiniteSet(Upto(k))
    BY <1>1, <1>2, FS_Subset
  <1>6. \A k \in L : place[k] \in 1 .. N
    <2> TAKE k \in L
    <2>1. Cardinality(Upto(k)) <= N /\ Cardinality(Upto(k)) \in Nat
      BY <1>1, <1>5, FS_Subset, FS_CardinalityType
    <2>2. Cardinality(Upto(k)) # 0
      BY <1>5, FS_EmptySet
    <2>3. place[k] = Cardinality(Upto(k))
      OBVIOUS
    <2> QED
      BY <1>1, <2>1, <2>2, <2>3
  <1>7. ASSUME NEW k \in L, NEW l \in L, NameOrder[k] < NameOrder[l] PROVE place[k] < place[l]
    <2> DEFINE P == Upto(k)
               Q == Upto(l)
    <2>1. P \subseteq Q \ {l}
      BY <1>1, <1>2, <1>7
    <2>2. l \in Q /\ IsFiniteSet(Q)
      BY <1>5
    <2>3. place[k] = Cardinality(P) /\ place[l] = Cardinality(Q)
      OBVIOUS
    <2> HIDE DEF P, Q, place
    <2>4. IsFiniteSet(Q \ {l}) /\ Cardinality(Q \ {l}) = Cardinality(Q) - 1
      BY <2>2, FS_RemoveElement
    <2>5. Cardinality(P) <= Cardinality(Q \ {l}) /\ Cardinality(P) \in Nat /\ Cardinality(Q) \in Nat
      BY <2>1, <2>2, <2>4, FS_Subset, FS_CardinalityType
    <2> QED
      BY <2>3, <2>4, <2>5
  <1>8. ASSUME NEW k \in L, NEW l \in L, place[k] = place[l] PROVE k = l
    <2> SUFFICES ASSUME k # l PROVE FALSE
      OBVIOUS
    <2>1. NameOrder[k] # NameOrder[l]
      BY <1>1, WalkAssumption
    <2>2. NameOrder[k] < NameOrder[l] \/ NameOrder[l] < NameOrder[k]
      BY <1>1, <1>2, <2>1
    <2>3. place[k] < place[l] \/ place[l] < place[k]
      BY <1>7, <2>2
    <2>4. place[k] \in 1 .. N /\ place[l] \in 1 .. N
      BY <1>6
    <2> HIDE DEF place
    <2> QED
      BY <1>8, <2>3, <2>4
  <1>9. place \in [L -> 1 .. N]
    BY <1>6
  <1>10. \A i \in 1 .. N : \E k \in L : place[k] = i
    <2> HIDE DEF place
    <2>1. place \in Injection(L, 1 .. N)
      BY <1>8, <1>9 DEF Injection, IsInjective
    <2>2. IsFiniteSet(1 .. N) /\ Cardinality(1 .. N) = N
      BY <1>1, FS_Interval
    <2>3. place \in Surjection(L, 1 .. N)
      BY <2>1, <2>2, FS_Injection
    <2> QED
      BY <2>3 DEF Surjection
  <1> DEFINE at == [i \in 1 .. N |-> CHOOSE k \in L : Cardinality(Upto(k)) = i]
  <1>11. ASSUME NEW i \in 1 .. N PROVE at[i] \in L /\ place[at[i]] = i
    <2>1. \E k \in L : Cardinality(Upto(k)) = i
      BY <1>10
    <2>2. PICK k : k = CHOOSE l \in L : Cardinality(Upto(l)) = i
      OBVIOUS
    <2>3. k \in L /\ Cardinality(Upto(k)) = i
      BY <2>1, <2>2
    <2>4. at[i] = k
      BY <2>2
    <2> QED
      BY <2>3, <2>4
  <1>12. s = [i \in 1 .. N |-> t.child[d][at[i]]]
    BY <1>4
  <1> HIDE DEF place, at, s, L, N
  <1>13. s \in Seq(Node) /\ Len(s) = N
    BY <1>1, <1>3, <1>11, <1>12
  <1>14. \A i \in 1 .. Len(s) : \E k \in Name : t.child[d][k] # NoNode /\ s[i] = t.child[d][k]
    BY <1>11, <1>12, <1>13 DEF L
  <1>15. ASSUME NEW k \in Name, t.child[d][k] # NoNode
         PROVE  \E i \in 1 .. Len(s) : s[i] = t.child[d][k]
    <2>1. k \in L
      BY <1>15 DEF L
    <2>2. place[k] \in 1 .. N
      BY <1>6, <2>1
    <2>3. at[place[k]] = k
      BY <1>8, <1>11, <2>1, <2>2
    <2> QED
      BY <1>12, <1>13, <2>2, <2>3
  <1>16. ASSUME \A k, l \in Name : t.child[d][k] # NoNode /\ t.child[d][k] = t.child[d][l] => k = l,
                NEW i \in 1 .. Len(s), NEW j \in 1 .. Len(s), s[i] = s[j]
         PROVE  i = j
    <2>1. at[i] = at[j]
      BY <1>11, <1>12, <1>13, <1>16 DEF L
    <2> QED
      BY <1>11, <1>13, <2>1
  <1> QED
    BY <1>13, <1>14, <1>15, <1>16 DEF ListsOnce, s

\* What is in a sequence, and what is in it once at most.
Has(s, x) == \E i \in 1 .. Len(s) : s[i] = x
Once(s, x) == \A i, j \in 1 .. Len(s) : s[i] = x /\ s[j] = x => i = j

\* What comes before b, of which the first is taken.
LEMMA Popped ==
    ASSUME NEW S, NEW a \in Seq(S), NEW b \in Seq(S), a \o b # <<>>
    PROVE  /\ Head(a \o b) \in S /\ Tail(a \o b) \in Seq(S)
           /\ \A x : Has(a, x) \/ Has(b, x) <=> x = Head(a \o b) \/ Has(Tail(a \o b), x)
           /\ \A x : Once(a, x) /\ Once(b, x) /\ ~ (Has(a, x) /\ Has(b, x)) =>
                  Once(Tail(a \o b), x) /\ (x = Head(a \o b) => ~ Has(Tail(a \o b), x))
  <1>1. PICK r : r = a \o b
    OBVIOUS
  <1>2. PICK h, q : h = Head(r) /\ q = Tail(r)
    OBVIOUS
  <1>3. PICK A, B : A = Len(a) /\ B = Len(b)
    OBVIOUS
  <1>4. A \in Nat /\ B \in Nat /\ r \in Seq(S) /\ Len(r) = A + B
    BY <1>1, <1>3
  <1>5. \A i \in 1 .. A + B : r[i] = IF i <= A THEN a[i] ELSE b[i - A]
    BY <1>1, <1>3
  <1>6. A + B > 0
    BY <1>1, <1>4
  <1>7. h \in S /\ q \in Seq(S) /\ h = r[1] /\ Len(q) = A + B - 1
    BY <1>2, <1>4, <1>6
  <1>8. \A i \in 1 .. A + B - 1 : q[i] = r[i + 1]
    BY <1>2, <1>4, <1>6
  <1>9. ASSUME NEW x PROVE Has(a, x) \/ Has(b, x) <=> \E i \in 1 .. A + B : r[i] = x
    <2>1. ASSUME NEW i \in 1 .. A, a[i] = x PROVE \E j \in 1 .. A + B : r[j] = x
      <3>1. i \in 1 .. A + B /\ i <= A
        BY <1>4
      <3> QED
        BY <1>5, <2>1, <3>1
    <2>2. ASSUME NEW i \in 1 .. B, b[i] = x PROVE \E j \in 1 .. A + B : r[j] = x
      <3>1. A + i \in 1 .. A + B /\ ~ (A + i <= A) /\ (A + i) - A = i
        BY <1>4
      <3> QED
        BY <1>5, <2>2, <3>1
    <2>3. ASSUME NEW i \in 1 .. A + B, r[i] = x PROVE Has(a, x) \/ Has(b, x)
      <3>1. CASE i <= A
        BY <1>3, <1>4, <1>5, <2>3, <3>1 DEF Has
      <3>2. CASE ~ (i <= A)
        <4>1. i - A \in 1 .. B
          BY <1>4, <3>2
        <4> QED
          BY <1>3, <1>5, <2>3, <3>2, <4>1 DEF Has
      <3> QED
        BY <3>1, <3>2
    <2> QED
      BY <1>3, <2>1, <2>2, <2>3 DEF Has
  <1>10. ASSUME NEW x PROVE (\E i \in 1 .. A + B : r[i] = x) <=> x = h \/ Has(q, x)
    <2>1. ASSUME NEW i \in 1 .. A + B, r[i] = x PROVE x = h \/ Has(q, x)
      <3>1. CASE i = 1
        BY <1>7, <2>1, <3>1
      <3>2. CASE i # 1
        <4>1. i - 1 \in 1 .. A + B - 1 /\ (i - 1) + 1 = i
          BY <1>4, <3>2
        <4> QED
          BY <1>7, <1>8, <2>1, <4>1 DEF Has
      <3> QED
        BY <3>1, <3>2
    <2>2. ASSUME Has(q, x) PROVE \E i \in 1 .. A + B : r[i] = x
      <3>1. PICK i \in 1 .. A + B - 1 : q[i] = x
        BY <1>7, <2>2 DEF Has
      <3>2. i + 1 \in 1 .. A + B
        BY <1>4
      <3> QED
        BY <1>8, <3>1, <3>2
    <2>3. 1 \in 1 .. A + B
      BY <1>4, <1>6
    <2> QED
      BY <1>7, <2>1, <2>2, <2>3
  <1>11. ASSUME NEW x, Once(a, x), Once(b, x), ~ (Has(a, x) /\ Has(b, x)),
                NEW i \in 1 .. A + B, NEW j \in 1 .. A + B, r[i] = x, r[j] = x
         PROVE  i = j
    <2>1. ASSUME NEW k \in 1 .. A + B, r[k] = x
          PROVE  \/ k \in 1 .. A /\ a[k] = x /\ Has(a, x)
                 \/ k - A \in 1 .. B /\ b[k - A] = x /\ Has(b, x)
      <3>1. CASE k <= A
        <4>1. k \in 1 .. A
          BY <1>4, <3>1
        <4> QED
          BY <1>3, <1>5, <2>1, <3>1, <4>1 DEF Has
      <3>2. CASE ~ (k <= A)
        <4>1. k - A \in 1 .. B
          BY <1>4, <3>2
        <4> QED
          BY <1>3, <1>5, <2>1, <3>2, <4>1 DEF Has
      <3> QED
        BY <3>1, <3>2
    <2>2. CASE Has(a, x)
      BY <1>3, <1>11, <2>1, <2>2 DEF Once
    <2>3. CASE ~ Has(a, x)
      <3>1. i - A \in 1 .. B /\ b[i - A] = x /\ j - A \in 1 .. B /\ b[j - A] = x
        BY <1>11, <2>1, <2>3
      <3>2. i - A = j - A
        BY <1>3, <1>11, <3>1 DEF Once
      <3> QED
        BY <1>4, <3>2
    <2> QED
      BY <2>2, <2>3
  <1>12. ASSUME NEW x, Once(a, x), Once(b, x), ~ (Has(a, x) /\ Has(b, x))
         PROVE  Once(q, x) /\ (x = h => ~ Has(q, x))
    <2>1. ASSUME NEW i \in 1 .. A + B - 1, NEW j \in 1 .. A + B - 1, q[i] = x, q[j] = x PROVE i = j
      <3>1. i + 1 \in 1 .. A + B /\ j + 1 \in 1 .. A + B /\ r[i + 1] = x /\ r[j + 1] = x
        BY <1>4, <1>8, <2>1
      <3>2. i + 1 = j + 1
        BY <1>11, <1>12, <3>1
      <3> QED
        BY <3>2
    <2>2. ASSUME NEW i \in 1 .. A + B - 1, q[i] = x, x = h PROVE FALSE
      <3>1. i + 1 \in 1 .. A + B /\ 1 \in 1 .. A + B /\ r[i + 1] = x /\ r[1] = x
        BY <1>4, <1>6, <1>7, <1>8, <2>2
      <3>2. i + 1 = 1
        BY <1>11, <1>12, <3>1
      <3> QED
        BY <3>2
    <2> QED
      BY <1>7, <2>1, <2>2 DEF Once, Has
  <1> QED
    BY <1>1, <1>2, <1>7, <1>9, <1>10, <1>12

-----------------------------------------------------------------------------
(* A loop whose body changes the tree.                                       *)

Begun == seen[Root] > 0

WalkState ==
    /\ Sound(tree, Attached(tree)) /\ rw \in BOOLEAN
    /\ walker \in {"all_paths", "walk"}
    /\ yielded \in Born(tree) \cup {NoNode}
    /\ stack \in Seq(Born(tree) \ {Root}) /\ children \in Seq(Node)
    /\ yielded \in Attached(tree) => children \in Seq(Born(tree) \ {Root})
    /\ seen \in [Node -> Nat]
    /\ stayed \subseteq Present(tree)
    /\ lost \subseteq Born(tree)
    /\ Walking => seen[yielded] > 0
    /\ ~ Walking => stack = <<>>
    /\ ~ Begun => /\ TreeInv(tree) /\ stayed = {} /\ lost = {} /\ local = TRUE
                  /\ \A n \in Node : seen[n] = 0

\* Of what stays in its place, a node is yielded or on the stack once its parent
\* was opened, and not before, if it is not lost with all that is below it.
PlaceInv ==
    /\ seen[Root] <= 1
    /\ \A n \in InPlace \ {Root} :
           /\ seen[n] <= 1 /\ Once(stack, n)
           /\ yielded \in Attached(tree) =>
                  Once(children, n) /\ (Has(children, n) => tree.parent[n] = yielded)
           /\ Has(stack, n) => seen[n] = 0
           /\ seen[n] = 1 \/ Has(stack, n) => seen[tree.parent[n]] = 1 /\ tree.parent[n] # yielded
           /\ seen[tree.parent[n]] = 1 /\ tree.parent[n] # yielded =>
                  seen[n] = 1 \/ Has(stack, n) \/ n \in lost
           /\ tree.parent[n] = yielded /\ walker = "walk" => Has(children, n) \/ n \in lost
           /\ tree.parent[n] \in lost => n \in lost

LEMMA PresentIs ==
    ASSUME NEW t, Rooted(t)
    PROVE  /\ Present(t) \subseteq Attached(t)
           /\ \A n \in Present(t) \ {Root} :
                  t.parent[n] \in Present(t) /\ t.child[t.parent[n]][t.name[n]] = n
           /\ \A S \in SUBSET Attached(t) :
                  (\A n \in S : n = Root \/ (t.parent[n] \in S /\ t.child[t.parent[n]][t.name[n]] = n))
                      => S \subseteq Present(t)
  <1> DEFINE N == {n \in Attached(t) : n = Root \/ t.child[t.parent[n]][t.name[n]] = n}
  <1>1. Present(t) = Connected(t, N)
    BY DEF Present
  <1>2. N \subseteq Attached(t) /\ \A n \in N \ {Root} : t.child[t.parent[n]][t.name[n]] = n
    OBVIOUS
  <1>3. ASSUME NEW S \in SUBSET Attached(t),
               \A n \in S : n = Root \/ (t.parent[n] \in S /\ t.child[t.parent[n]][t.name[n]] = n)
        PROVE  S \subseteq Present(t)
    <2>1. S \in SUBSET N
      BY <1>3
    <2> HIDE DEF N
    <2> QED
      BY <1>1, <1>3, <2>1, ConnectedIs
  <1> HIDE DEF N
  <1>4. Present(t) \subseteq N /\ \A n \in Present(t) : n = Root \/ t.parent[n] \in Present(t)
    BY <1>1, ConnectedIs
  <1> QED
    BY <1>2, <1>3, <1>4

LEMMA InPlaceIs ==
    ASSUME WalkState
    PROVE  /\ InPlace \subseteq stayed /\ InPlace \subseteq Present(tree)
           /\ InPlace \subseteq Attached(tree) /\ Attached(tree) \subseteq Born(tree)
           /\ Born(tree) \subseteq Node /\ NoNode \notin Node
           /\ \A n \in InPlace \ {Root} :
                  /\ tree.parent[n] \in InPlace /\ tree.parent[n] # n
                  /\ tree.name[n] \in Name /\ tree.child[tree.parent[n]][tree.name[n]] = n
           /\ \A S \in SUBSET stayed :
                  (\A n \in S : n = Root \/ tree.parent[n] \in S) => S \subseteq InPlace
  <1>1. Rooted(tree) /\ tree \in Trees /\ stayed \subseteq Present(tree)
    BY DEF WalkState, Sound, Rooted
  <1>2. /\ InPlace \subseteq stayed
        /\ \A n \in InPlace : n = Root \/ tree.parent[n] \in InPlace
        /\ \A S \in SUBSET stayed :
               (\A n \in S : n = Root \/ tree.parent[n] \in S) => S \subseteq InPlace
    BY ConnectedIs DEF InPlace
  <1>3. Attached(tree) \subseteq Born(tree) /\ Born(tree) \subseteq Node /\ NoNode \notin Node
    BY NodeAssumption DEF Attached, Born
  <1>4. InPlace \subseteq Present(tree) /\ InPlace \subseteq Attached(tree)
        /\ \A n \in InPlace \ {Root} : tree.child[tree.parent[n]][tree.name[n]] = n
    BY <1>1, <1>2, PresentIs
  <1>5. \A n \in Node : tree.name[n] \in Name
    BY <1>1 DEF Trees
  <1>6. ASSUME NEW n \in InPlace \ {Root} PROVE tree.parent[n] # n
    <2>1. n \in Born(tree) /\ tree.parent[n] \in Node
      BY <1>2, <1>3, <1>4, <1>6
    <2>2. Avoids(tree, tree.parent[n], n)
      BY <1>1, <1>3, <2>1, ParentNotBelow
    <2> QED
      BY <2>2 DEF Avoids
  <1> QED
    BY <1>2, <1>3, <1>4, <1>5, <1>6

\* What a walk lists of a directory that is attached.
LEMMA ChildrenAre ==
    ASSUME Sound(tree, Attached(tree)), NEW d \in Attached(tree),
           NEW s, s = SortedChildren(tree, d)
    PROVE  /\ s \in Seq(Born(tree) \ {Root})
           /\ \A x : Once(s, x)
           /\ \A x : Has(s, x) =>
                  /\ x \in Attached(tree) \ {Root} /\ tree.parent[x] = d
                  /\ tree.child[d][tree.name[x]] = x
           /\ \A k \in Name : tree.child[d][k] # NoNode => Has(s, tree.child[d][k])
  <1>1. tree \in Trees /\ d \in Node /\ Attached(tree) \subseteq Born(tree) /\ Born(tree) \subseteq Node
        /\ tree.parent[Root] = NoNode /\ d # NoNode
    BY NodeAssumption DEF Sound, Rooted, Attached, Born
  <1>2. /\ s \in Seq(Node)
        /\ \A i \in 1 .. Len(s) : \E k \in Name : tree.child[d][k] # NoNode /\ s[i] = tree.child[d][k]
        /\ \A k \in Name : tree.child[d][k] # NoNode => \E i \in 1 .. Len(s) : s[i] = tree.child[d][k]
        /\ (\A k, l \in Name : tree.child[d][k] # NoNode /\ tree.child[d][k] = tree.child[d][l] => k = l)
               => \A i, j \in 1 .. Len(s) : s[i] = s[j] => i = j
    <2>1. ListsOnce(tree, d, s)
      BY <1>1, SortedIs
    <2> QED
      BY <2>1 DEF ListsOnce
  <1>3. \A k \in Name : tree.child[d][k] # NoNode =>
            /\ tree.child[d][k] \in Attached(tree) /\ tree.parent[tree.child[d][k]] = d
            /\ tree.name[tree.child[d][k]] = k
    BY DEF Sound
  <1>4. \A i, j \in 1 .. Len(s) : s[i] = s[j] => i = j
    <2>1. \A k, l \in Name : tree.child[d][k] # NoNode /\ tree.child[d][k] = tree.child[d][l] => k = l
      <3> TAKE k, l \in Name
      <3>1. SUFFICES ASSUME tree.child[d][k] # NoNode, tree.child[d][k] = tree.child[d][l] PROVE k = l
        OBVIOUS
      <3>2. tree.name[tree.child[d][k]] = k /\ tree.name[tree.child[d][l]] = l
        BY <1>3, <3>1
      <3> QED
        BY <3>1, <3>2
    <2> QED
      BY <1>2, <2>1
  <1>5. \A i \in 1 .. Len(s) :
            /\ s[i] \in Attached(tree) \ {Root} /\ tree.parent[s[i]] = d
            /\ tree.child[d][tree.name[s[i]]] = s[i]
    BY <1>1, <1>2, <1>3
  <1>6. s \in Seq(Born(tree) \ {Root})
    <2> DEFINE T == Born(tree) \ {Root}
    <2>1. \A i \in 1 .. Len(s) : s[i] \in T
      BY <1>1, <1>5
    <2>2. s \in Seq(Node)
      BY <1>2
    <2> HIDE DEF T
    <2>3. s \in Seq(T)
      BY <2>1, <2>2
    <2> QED
      BY <2>3 DEF T
  <1> QED
    BY <1>2, <1>4, <1>5, <1>6 DEF Once, Has

\* What is below the current path when the loop asks for the next.
LEMMA OpenedIs ==
    ASSUME WalkState, PlaceInv, Walking
    PROVE  /\ Opened \in Seq(Born(tree) \ {Root})
           /\ \A n \in InPlace \ {Root} :
                  /\ Once(Opened, n)
                  /\ Has(Opened, n) => tree.parent[n] = yielded
                  /\ tree.parent[n] = yielded => Has(Opened, n) \/ n \in lost
  <1>1. yielded \in Born(tree) /\ Sound(tree, Attached(tree)) /\ walker \in {"all_paths", "walk"}
    BY DEF WalkState, Walking
  <1>2. CASE Detached(tree, yielded)
    <2>1. Opened = <<>>
      BY <1>2 DEF Opened
    <2>2. \A x : Once(Opened, x) /\ ~ Has(Opened, x)
      BY <2>1 DEF Once, Has
    <2>3. \A n \in InPlace \ {Root} : tree.parent[n] # yielded
      BY <1>2, InPlaceIs DEF Attached
    <2> QED
      BY <2>1, <2>2, <2>3
  <1>3. CASE ~ Detached(tree, yielded) /\ walker = "walk"
    <2>1. Opened = children /\ yielded \in Attached(tree)
      BY <1>1, <1>3 DEF Opened, Attached
    <2> QED
      BY <1>3, <2>1 DEF WalkState, PlaceInv
  <1>4. CASE ~ Detached(tree, yielded) /\ walker = "all_paths"
    <2>1. Opened = SortedChildren(tree, yielded) /\ yielded \in Attached(tree)
      BY <1>1, <1>4 DEF Opened, Attached
    <2>2. /\ Opened \in Seq(Born(tree) \ {Root})
          /\ \A x : Once(Opened, x)
          /\ \A x : Has(Opened, x) => tree.parent[x] = yielded
          /\ \A k \in Name : tree.child[yielded][k] # NoNode => Has(Opened, tree.child[yielded][k])
      BY <1>1, <2>1, ChildrenAre
    <2>3. ASSUME NEW n \in InPlace \ {Root}, tree.parent[n] = yielded PROVE Has(Opened, n)
      <3>1. tree.name[n] \in Name /\ tree.child[yielded][tree.name[n]] = n /\ n # NoNode
        BY <2>3, InPlaceIs
      <3> QED
        BY <2>2, <3>1
    <2> QED
      BY <2>2, <2>3
  <1> QED
    BY <1>1, <1>2, <1>3, <1>4

LEMMA EmptyHasNone == \A x : Once(<<>>, x) /\ ~ Has(<<>>, x)
  BY DEF Once, Has

\* What walk() gives with a path.
LEMMA YieldedList ==
    ASSUME Sound(tree, Attached(tree)), NEW n \in Node, NEW s,
           s = IF walker = "walk" THEN SortedChildren(tree, n) ELSE <<>>
    PROVE  /\ s \in Seq(Node)
           /\ n \in Attached(tree) =>
                  /\ s \in Seq(Born(tree) \ {Root})
                  /\ \A x : Once(s, x) /\ (Has(s, x) => tree.parent[x] = n)
                  /\ walker = "walk" =>
                         \A k \in Name : tree.child[n][k] # NoNode => Has(s, tree.child[n][k])
  <1>1. tree \in Trees
    BY DEF Sound, Rooted
  <1>2. CASE walker = "walk"
    <2>1. s \in Seq(Node)
      BY <1>1, <1>2, SortedIs DEF ListsOnce
    <2>2. ASSUME n \in Attached(tree)
          PROVE  /\ s \in Seq(Born(tree) \ {Root})
                 /\ \A x : Once(s, x) /\ (Has(s, x) => tree.parent[x] = n)
                 /\ \A k \in Name : tree.child[n][k] # NoNode => Has(s, tree.child[n][k])
      BY <1>2, <2>2, ChildrenAre
    <2> QED
      BY <2>1, <2>2
  <1>3. CASE walker # "walk"
    <2>1. s = <<>>
      BY <1>3
    <2> QED
      BY <1>3, <2>1, EmptyHasNone
  <1> QED
    BY <1>2, <1>3

LEMMA NextPathKeepsState ==
    ASSUME WalkState, PlaceInv, NextPath
    PROVE  WalkState'
  <1> DEFINE rest == Opened \o stack
  <1>1. Walking /\ UNCHANGED <<vars, walker, changes, stayed, lost, local>>
    BY DEF NextPath
  <1>2. /\ Sound(tree, Attached(tree)) /\ rw \in BOOLEAN /\ walker \in {"all_paths", "walk"}
        /\ stack \in Seq(Born(tree) \ {Root}) /\ seen \in [Node -> Nat]
        /\ stayed \subseteq Present(tree) /\ lost \subseteq Born(tree) /\ Born(tree) \subseteq Node
        /\ Begun /\ yielded \in Born(tree)
    <2>1. seen[yielded] > 0 /\ yielded \in Born(tree) /\ Born(tree) \subseteq Node
      BY <1>1 DEF WalkState, Walking, Born
    <2>2. Begun
      BY <2>1 DEF WalkState
    <2> QED
      BY <2>1, <2>2 DEF WalkState
  <1>3. Opened \in Seq(Born(tree) \ {Root})
    BY <1>1, OpenedIs
  <1>4. CASE rest # <<>>
    <2>1. PICK h, q : h = Head(rest) /\ q = Tail(rest)
      OBVIOUS
    <2>2. /\ yielded' = h /\ stack' = q /\ seen' = [seen EXCEPT ![h] = @ + 1]
          /\ children' = IF walker = "walk" THEN SortedChildren(tree, h) ELSE <<>>
      BY <1>4, <2>1 DEF NextPath, Yield
    <2>3. h \in Born(tree) \ {Root} /\ q \in Seq(Born(tree) \ {Root})
      BY <1>2, <1>3, <1>4, <2>1, Popped
    <2>4. children' \in Seq(Node) /\ (h \in Attached(tree) => children' \in Seq(Born(tree) \ {Root}))
      BY <1>2, <2>2, <2>3, YieldedList
    <2>5. seen' \in [Node -> Nat] /\ seen'[h] > 0 /\ seen'[Root] > 0 /\ h # NoNode
      BY <1>2, <2>2, <2>3, NodeAssumption DEF Begun
    <2> QED
      BY <1>1, <1>2, <2>2, <2>3, <2>4, <2>5 DEF WalkState, Walking, Begun, vars
  <1>5. CASE rest = <<>>
    <2>1. yielded' = NoNode /\ children' = <<>> /\ stack' = stack /\ seen' = seen
      BY <1>5 DEF NextPath
    <2>2. stack = <<>>
      BY <1>2, <1>3, <1>5
    <2>3. NoNode \notin Attached(tree)
      BY NodeAssumption DEF Attached, Born
    <2> QED
      BY <1>1, <1>2, <2>1, <2>2, <2>3 DEF WalkState, Walking, Begun, vars
  <1> QED
    BY <1>4, <1>5

LEMMA NextPathKeepsPlace ==
    ASSUME WalkState, PlaceInv, NextPath
    PROVE  PlaceInv'
  <1> DEFINE rest == Opened \o stack
             P == InPlace \ {Root}
             p(n) == tree.parent[n]
  <1>1. Walking /\ UNCHANGED <<tree, rw, walker, stayed, lost>> /\ InPlace' = InPlace
    BY DEF NextPath, InPlace, vars
  <1>2. /\ Sound(tree, Attached(tree)) /\ stack \in Seq(Born(tree) \ {Root}) /\ seen \in [Node -> Nat]
        /\ Born(tree) \subseteq Node /\ seen[yielded] > 0 /\ seen[Root] <= 1
    BY <1>1 DEF WalkState, Walking, Born, PlaceInv
  <1>3. \A n \in P :
            /\ n \in Node /\ n # Root /\ tree.name[n] \in Name /\ tree.child[p(n)][tree.name[n]] = n
            /\ p(n) \in InPlace /\ p(n) \in Node /\ p(n) # NoNode /\ n # NoNode /\ p(n) # n
    BY InPlaceIs
  <1>4. \A n \in P :
            /\ seen[n] <= 1 /\ Once(stack, n)
            /\ Has(stack, n) => seen[n] = 0
            /\ seen[n] = 1 \/ Has(stack, n) => seen[p(n)] = 1 /\ p(n) # yielded
            /\ seen[p(n)] = 1 /\ p(n) # yielded => seen[n] = 1 \/ Has(stack, n) \/ n \in lost
            /\ p(n) \in lost => n \in lost
    BY DEF PlaceInv
  <1>5. /\ Opened \in Seq(Born(tree) \ {Root})
        /\ \A n \in P :
               /\ Once(Opened, n)
               /\ Has(Opened, n) => p(n) = yielded
               /\ p(n) = yielded => Has(Opened, n) \/ n \in lost
    BY <1>1, OpenedIs
  <1>6. \A n \in P : p(n) = yielded => seen[p(n)] = 1
    <2> SUFFICES ASSUME NEW n \in P, p(n) = yielded PROVE seen[yielded] = 1
      OBVIOUS
    <2>1. seen[yielded] <= 1 /\ yielded \in Node /\ seen[yielded] \in Nat
      BY <1>2, <1>3, <1>4
    <2> QED
      BY <1>2, <2>1
  <1>7. CASE rest # <<>>
    <2>1. PICK h, q : h = Head(rest) /\ q = Tail(rest)
      OBVIOUS
    <2>2. /\ yielded' = h /\ stack' = q /\ seen' = [seen EXCEPT ![h] = @ + 1]
          /\ children' = IF walker = "walk" THEN SortedChildren(tree, h) ELSE <<>>
      BY <1>7, <2>1 DEF NextPath, Yield
    <2>3. /\ h \in Born(tree) \ {Root}
          /\ \A x : Has(Opened, x) \/ Has(stack, x) <=> x = h \/ Has(q, x)
          /\ \A x : Once(Opened, x) /\ Once(stack, x) /\ ~ (Has(Opened, x) /\ Has(stack, x)) =>
                 Once(q, x) /\ (x = h => ~ Has(q, x))
      BY <1>2, <1>5, <1>7, <2>1, Popped
    <2>4. \A n \in P : Once(q, n) /\ (n = h => ~ Has(q, n))
      BY <1>4, <1>5, <2>3
    <2>5. \A n \in P : n = h \/ Has(q, n) => seen[n] = 0
      <3> SUFFICES ASSUME NEW n \in P, Has(Opened, n) PROVE seen[n] = 0
        BY <1>4, <2>3
      <3>1. seen[n] # 1 /\ seen[n] <= 1 /\ seen[n] \in Nat
        BY <1>2, <1>3, <1>4, <1>5
      <3> QED
        BY <3>1
    <2>6. \A n \in Node : seen'[n] = IF n = h THEN seen[n] + 1 ELSE seen[n]
      BY <1>2, <2>2
    <2>7. \A n \in P : seen'[n] <= 1 /\ (Has(q, n) => seen'[n] = 0) /\ (n = h => seen'[n] = 1)
      BY <1>3, <1>4, <2>4, <2>5, <2>6
    <2>8. ASSUME NEW n \in P, seen'[n] = 1 \/ Has(q, n) PROVE seen'[p(n)] = 1 /\ p(n) # h
      <3>1. seen[n] = 1 \/ Has(stack, n) \/ Has(Opened, n)
        BY <1>3, <2>3, <2>6, <2>8
      <3>2. seen[p(n)] = 1
        BY <1>4, <1>5, <1>6, <3>1
      <3>3. p(n) # h
        <4> SUFFICES ASSUME p(n) = h PROVE FALSE
          OBVIOUS
        <4>1. h \in P
          BY <1>3, <2>3
        <4> QED
          BY <2>5, <3>2, <4>1
      <3> QED
        BY <1>3, <2>6, <3>2, <3>3
    <2>9. ASSUME NEW n \in P, seen'[p(n)] = 1, p(n) # h
          PROVE  seen'[n] = 1 \/ Has(q, n) \/ n \in lost
      <3>1. seen[p(n)] = 1
        BY <1>3, <2>6, <2>9
      <3>2. seen[n] = 1 \/ Has(stack, n) \/ Has(Opened, n) \/ n \in lost
        BY <1>4, <1>5, <3>1
      <3> QED
        BY <1>3, <2>3, <2>5, <2>6, <2>7, <3>2
    <2>10. h \in Attached(tree) =>
               /\ \A x : Once(children', x) /\ (Has(children', x) => tree.parent[x] = h)
               /\ walker = "walk" =>
                      \A k \in Name : tree.child[h][k] # NoNode => Has(children', tree.child[h][k])
      BY <1>2, <2>2, <2>3, YieldedList
    <2>11. ASSUME NEW n \in P, p(n) = h, walker = "walk" PROVE Has(children', n)
      <3>1. h \in Attached(tree)
        BY <1>3, <2>11, InPlaceIs
      <3>2. tree.name[n] \in Name /\ tree.child[h][tree.name[n]] = n /\ n # NoNode
        BY <1>3, <2>11
      <3> QED
        BY <2>10, <2>11, <3>1, <3>2
    <2>12. seen'[Root] <= 1
      BY <1>2, <2>3, <2>6, NodeAssumption
    <2> HIDE DEF rest
    <2> QED
      BY <1>1, <1>4, <2>2, <2>4, <2>7, <2>8, <2>9, <2>10, <2>11, <2>12 DEF PlaceInv
  <1>8. CASE rest = <<>>
    <2>1. yielded' = NoNode /\ children' = <<>> /\ stack' = stack /\ seen' = seen
      BY <1>8 DEF NextPath
    <2>2. Opened = <<>>
      BY <1>2, <1>5, <1>8
    <2>3. \A n \in P : p(n) = yielded => n \in lost
      BY <1>5, <2>2, EmptyHasNone
    <2>4. NoNode \notin Attached(tree)
      BY NodeAssumption DEF Attached, Born
    <2>5. ASSUME NEW n \in P, seen[p(n)] = 1 PROVE seen[n] = 1 \/ Has(stack, n) \/ n \in lost
      BY <1>4, <2>3, <2>5
    <2> HIDE DEF rest
    <2> QED
      BY <1>1, <1>2, <1>3, <1>4, <2>1, <2>4, <2>5 DEF PlaceInv
  <1> QED
    BY <1>7, <1>8

\* What is in place is in the tree, at its name.
PlacesFacts ==
    /\ InPlace \subseteq stayed
    /\ InPlace \subseteq Attached(tree) /\ Attached(tree) \subseteq Born(tree)
    /\ Born(tree) \subseteq Node
    /\ \A n \in InPlace \ {Root} :
           /\ tree.parent[n] \in InPlace /\ tree.name[n] \in Name
           /\ tree.child[tree.parent[n]][tree.name[n]] = n

LEMMA PlacesAre == WalkState => PlacesFacts
  BY InPlaceIs DEF PlacesFacts

LEMMA StartKeeps ==
    ASSUME WalkState, PlaceInv, StartWalk
    PROVE  WalkState' /\ PlaceInv'
  <1>1. /\ UNCHANGED <<tree, rw, walker, changes, lost, local>>
        /\ yielded' = Root /\ stack' = <<>> /\ seen' = [seen EXCEPT ![Root] = @ + 1]
        /\ children' = IF walker = "walk" THEN SortedChildren(tree, Root) ELSE <<>>
        /\ stayed' = Present(tree) /\ seen[Root] = 0
    BY DEF StartWalk, Yield, vars
  <1>2. /\ Sound(tree, Attached(tree)) /\ rw \in BOOLEAN /\ walker \in {"all_paths", "walk"}
        /\ seen \in [Node -> Nat] /\ lost = {} /\ \A n \in Node : seen[n] = 0
    BY <1>1 DEF WalkState, Begun
  <1>3. /\ Rooted(tree) /\ Root \in Attached(tree) /\ Attached(tree) \subseteq Born(tree)
        /\ Born(tree) \subseteq Node /\ Root # NoNode /\ Root \in Node /\ NoNode \notin Node
    BY <1>2, AttachedUp, NodeAssumption DEF Sound, Born
  <1>4. /\ children' \in Seq(Node) /\ children' \in Seq(Born(tree) \ {Root})
        /\ \A x : Once(children', x) /\ (Has(children', x) => tree.parent[x] = Root)
        /\ walker = "walk" =>
               \A k \in Name : tree.child[Root][k] # NoNode => Has(children', tree.child[Root][k])
    <2> DEFINE s == children'
    <2>1. s = IF walker = "walk" THEN SortedChildren(tree, Root) ELSE <<>>
      BY <1>1
    <2> HIDE DEF s
    <2>2. /\ s \in Seq(Node)
          /\ Root \in Attached(tree) =>
                /\ s \in Seq(Born(tree) \ {Root})
                /\ \A x : Once(s, x) /\ (Has(s, x) => tree.parent[x] = Root)
                /\ walker = "walk" =>
                       \A k \in Name : tree.child[Root][k] # NoNode => Has(s, tree.child[Root][k])
      BY <1>2, <1>3, <2>1, YieldedList
    <2> QED
      BY <1>3, <2>2 DEF s
  <1>5. seen' \in [Node -> Nat] /\ seen'[Root] = 1 /\ \A n \in Node \ {Root} : seen'[n] = 0
    BY <1>1, <1>2, <1>3
  <1>6. WalkState'
    <2>1. <<>> \in Seq(Born(tree) \ {Root})
      OBVIOUS
    <2> QED
      BY <1>1, <1>2, <1>3, <1>4, <1>5, <2>1 DEF WalkState, Walking, Begun
  <1>7. \A n \in InPlace' \ {Root} :
            /\ n \in Node /\ tree.parent[n] \in InPlace' /\ tree.parent[n] \in Node
            /\ tree.name[n] \in Name /\ tree.child[tree.parent[n]][tree.name[n]] = n
    <2>1. (WalkState => PlacesFacts)'
      BY PlacesAre, PTL
    <2> QED
      BY <1>1, <1>6, <2>1 DEF PlacesFacts
  <1>8. ASSUME NEW n \in InPlace' \ {Root}, tree.parent[n] = Root, walker = "walk"
        PROVE  Has(children', n)
    BY <1>3, <1>4, <1>7, <1>8
  <1> QED
    BY <1>1, <1>2, <1>3, <1>4, <1>5, <1>6, <1>7, <1>8, EmptyHasNone DEF PlaceInv

LEMMA BuildKeeps ==
    ASSUME WalkState, PlaceInv, Build
    PROVE  WalkState' /\ PlaceInv'
  <1>1. /\ UNCHANGED <<walker, yielded, children, stack, changes, seen, stayed, lost, local>>
        /\ seen[Root] = 0 /\ Next
    BY DEF Build, Next, loop
  <1>2. /\ ~ Begun /\ Inv /\ Sound(tree, Attached(tree)) /\ stayed = {} /\ lost = {} /\ local = TRUE
        /\ walker \in {"all_paths", "walk"} /\ \A n \in Node : seen[n] = 0
        /\ seen \in [Node -> Nat]
    BY <1>1 DEF WalkState, Begun, Inv
  <1>3. yielded = NoNode /\ stack = <<>> /\ children \in Seq(Node)
    <2>1. ~ Walking
      <3> SUFFICES ASSUME Walking PROVE FALSE
        OBVIOUS
      <3>1. yielded \in Node /\ seen[yielded] > 0
        BY DEF WalkState, Walking, Born
      <3> QED
        BY <1>2, <3>1
    <2> QED
      BY <2>1 DEF WalkState, Walking
  <1>4. Inv'
    BY <1>1, <1>2, StepIsSafe
  <1>5. TreeInv(tree') /\ Sound(tree', Attached(tree')) /\ rw' \in BOOLEAN
    BY <1>4 DEF Inv, TreeInv
  <1>6. NoNode \notin Attached(tree') /\ <<>> \in Seq(Born(tree') \ {Root})
    BY NodeAssumption DEF Attached, Born
  <1>7. WalkState'
    BY <1>1, <1>2, <1>3, <1>5, <1>6 DEF WalkState, Walking, Begun
  <1>8. InPlace' = {}
    BY <1>1, <1>2 DEF InPlace, Connected
  <1>9. PlaceInv'
    BY <1>1, <1>8 DEF PlaceInv
  <1> QED
    BY <1>7, <1>9

LEMMA ClearKeeps ==
    ASSUME WalkState, PlaceInv, ClearChildren
    PROVE  WalkState' /\ PlaceInv'
  <1> DEFINE C == Beneath(tree, InPlace \cap Present(tree), yielded) \ {yielded}
  <1>1. /\ UNCHANGED <<tree, rw, walker, yielded, stack, changes, seen, stayed, local>>
        /\ children' = <<>> /\ lost' = lost \cup C /\ Walking /\ InPlace' = InPlace
    BY DEF ClearChildren, vars, InPlace
  <1>2. Rooted(tree) /\ yielded \in Born(tree) /\ seen[yielded] > 0 /\ Begun
    <2>1. Rooted(tree) /\ yielded \in Born(tree) /\ seen[yielded] > 0
      BY <1>1 DEF WalkState, Walking, Sound
    <2>2. Begun
      BY <2>1 DEF WalkState, Born
    <2> QED
      BY <2>1, <2>2
  <1>3. C \subseteq Born(tree)
    BY InPlaceIs DEF Beneath
  <1>4. \A n : n \in C <=> n \in InPlace /\ Below(tree, n, yielded) /\ n # yielded
    BY InPlaceIs DEF Beneath
  <1>5. ASSUME NEW n \in InPlace \ {Root}, tree.parent[n] \in C \cup {yielded} PROVE n \in C
    <2>1. /\ tree.parent[n] \in InPlace /\ n \in Born(tree) /\ tree.parent[n] # NoNode
          /\ tree.parent[n] # n
      BY InPlaceIs
    <2>2. Below(tree, tree.parent[n], yielded)
      BY <1>2, <1>4, <1>5, BelowUp
    <2>3. Below(tree, n, yielded)
      BY <1>2, <2>1, <2>2, AvoidsUp DEF Below, Avoids
    <2>4. n # yielded
      BY <1>2, <2>1, <2>2, ParentNotBelow DEF Below
    <2> QED
      BY <1>4, <2>3, <2>4
  <1> HIDE DEF C
  <1>6. WalkState'
    BY <1>1, <1>2, <1>3 DEF WalkState, Walking, Begun
  <1>7. PlaceInv'
    BY <1>1, <1>5, EmptyHasNone DEF PlaceInv
  <1> QED
    BY <1>6, <1>7

\* A change leaves what it does not take off a parent where it was.
LEMMA ChangeKeepsState ==
    ASSUME WalkState, Change
    PROVE  /\ WalkState'
           /\ UNCHANGED <<walker, yielded, children, stack, seen>>
           /\ Walking /\ Evolved(tree, tree')
           /\ yielded \in Attached(tree') => yielded \in Attached(tree)
           /\ \A n \in stayed' : n \in stayed /\ tree'.parent[n] = tree.parent[n]
  <1> DEFINE off == {n \in Present(tree) :
                        n \notin Present(tree') \/ tree'.parent[n] # tree.parent[n]}
  <1>1. /\ UNCHANGED <<walker, yielded, children, stack, seen>> /\ Walking /\ Changing
        /\ stayed' = stayed \ off
    BY DEF Change, Changing, loop
  <1>2. Sound(tree, Attached(tree)) /\ Rooted(tree) /\ rw \in BOOLEAN
    BY DEF WalkState, Sound
  <1>3. Evolved(tree, tree')
    BY <1>1, <1>2, ChangeEvolves
  <1>4. yielded \in Born(tree) /\ seen[yielded] > 0 /\ Begun
    <2>1. yielded \in Born(tree) /\ seen[yielded] > 0
      BY <1>1 DEF WalkState, Walking
    <2> QED
      BY <2>1 DEF WalkState, Born
  <1>5. yielded \in Attached(tree') => yielded \in Attached(tree)
    BY <1>2, <1>3, <1>4, DetachedStays
  <1>6. Sound(tree', Attached(tree')) /\ Born(tree) \subseteq Born(tree')
    BY <1>3 DEF Evolved
  <1>7. \A n \in stayed' : n \in stayed /\ n \in Present(tree') /\ tree'.parent[n] = tree.parent[n]
    BY <1>1 DEF WalkState
  <1>8. rw' \in BOOLEAN
    BY <1>1, <1>2 DEF Changing, Next, MkDir, AddFile, AddSymlink, AddOver, InsertFile, SetName,
                      Unlink, PruneIfEmptyDir, MoveTo, Freeze, DelItem, AskPath
  <1>9. lost' \subseteq Born(tree')
    <2>1. InPlace \subseteq Born(tree)
      BY InPlaceIs
    <2>2. lost' \subseteq lost \cup InPlace
      BY DEF Change, Beneath
    <2> QED
      BY <1>6, <2>1, <2>2 DEF WalkState
  <1>10. stack \in Seq(Born(tree') \ {Root})
    BY <1>6 DEF WalkState
  <1>11. yielded \in Attached(tree) => children \in Seq(Born(tree') \ {Root})
    BY <1>6 DEF WalkState
  <1> HIDE DEF off
  <1>12. WalkState'
    BY <1>1, <1>4, <1>5, <1>6, <1>7, <1>8, <1>9, <1>10, <1>11 DEF WalkState, Walking, Begun
  <1> QED
    BY <1>1, <1>3, <1>5, <1>7, <1>12

LEMMA ChangeKeeps ==
    ASSUME WalkState, PlaceInv, Change
    PROVE  WalkState' /\ PlaceInv'
  <1> DEFINE S == InPlace'
             put == {n \in Born(tree) : tree'.parent[n] \notin {tree.parent[n], NoNode}}
             moved == UNION {Beneath(tree, Born(tree), n) : n \in put}
             gone == IF Detached(tree', yielded) /\ ~ Detached(tree, yielded)
                     THEN Beneath(tree, InPlace, yielded) ELSE {}
  <1>1. /\ WalkState'
        /\ UNCHANGED <<walker, yielded, children, stack, seen>>
        /\ Walking
        /\ yielded \in Attached(tree') => yielded \in Attached(tree)
        /\ \A n \in stayed' : n \in stayed /\ tree'.parent[n] = tree.parent[n]
    BY ChangeKeepsState
  <1>2. lost' = (lost \cup gone) \ moved
    BY DEF Change
  <1>3. (WalkState => PlacesFacts)'
    BY PlacesAre, PTL
  <1>4. Rooted(tree) /\ Rooted(tree') /\ Root # NoNode
    BY <1>1, NodeAssumption DEF WalkState, Sound
  <1>5. /\ S \subseteq Attached(tree') /\ S \subseteq stayed'
        /\ \A n \in S \ {Root} : tree'.parent[n] \in S
    BY <1>1, <1>3 DEF PlacesFacts
  <1>6. \A n \in S : n = Root \/ (tree'.parent[n] = tree.parent[n] /\ tree.parent[n] \in S)
    BY <1>1, <1>5
  <1> HIDE DEF S
  <1>7. S \subseteq InPlace
    BY <1>1, <1>5, <1>6, InPlaceIs
  <1>8. S \subseteq Born(tree) /\ \A n \in S : tree.parent[n] \in S \cup {NoNode}
    BY <1>4, <1>6, <1>7, InPlaceIs DEF Rooted
  <1>9. \A n \in S : \A m : m \notin S => ~ Below(tree, n, m)
    BY <1>8, ClosedAvoids DEF Below
  <1>10. \A n \in put : n \notin S
    BY <1>4, <1>6 DEF Rooted
  <1>11. \A n \in S : n \notin moved
    BY <1>9, <1>10 DEF Beneath
  <1>12. \A n \in S : n \notin gone
    <2>1. ASSUME Detached(tree', yielded) PROVE yielded \notin S
      BY <1>5, <2>1 DEF Attached
    <2> QED
      BY <1>9, <2>1 DEF Beneath
  <1> HIDE DEF moved, gone, put
  <1>13. \A n \in S : n \in lost' <=> n \in lost
    BY <1>2, <1>11, <1>12
  <1>14. \A n \in S \ {Root} : n \in InPlace \ {Root} /\ tree'.parent[n] = tree.parent[n] /\ tree.parent[n] \in S
    BY <1>6, <1>7
  <1>15. PlaceInv'
    BY <1>1, <1>13, <1>14 DEF PlaceInv, S
  <1> QED
    BY <1>1, <1>15

-----------------------------------------------------------------------------
(* What a loop is given.                                                     *)

LEMMA InitWalkState == InitWalk => WalkState /\ PlaceInv
  <1> SUFFICES ASSUME InitWalk PROVE WalkState /\ PlaceInv
    OBVIOUS
  <1>1. /\ tree = EmptyTree /\ rw = TRUE /\ walker \in {"all_paths", "walk"}
        /\ yielded = NoNode /\ children = <<>> /\ stack = <<>>
        /\ seen = [n \in Node |-> 0] /\ stayed = {} /\ lost = {} /\ local = TRUE
    BY WalkAssumption DEF InitWalk, Init
  <1>2. TreeInv(tree) /\ Sound(tree, Attached(tree))
    BY <1>1, EmptyIsSound DEF TreeInv
  <1>3. NoNode \notin Attached(tree) /\ Root \in Node
    BY NodeAssumption DEF Attached, Born
  <1>4. WalkState
    BY <1>1, <1>2, <1>3 DEF WalkState, Walking, Begun
  <1>5. InPlace = {}
    BY <1>1 DEF InPlace, Connected
  <1>6. PlaceInv
    BY <1>1, <1>3, <1>5 DEF PlaceInv
  <1> QED
    BY <1>4, <1>6

LEMMA WalkStepKeeps == WalkState /\ PlaceInv /\ [NextWalk]_allVars => WalkState' /\ PlaceInv'
  <1> SUFFICES ASSUME WalkState, PlaceInv, [NextWalk]_allVars PROVE WalkState' /\ PlaceInv'
    OBVIOUS
  <1>1. CASE UNCHANGED allVars
    <2>1. UNCHANGED <<tree, rw, walker, yielded, children, stack, seen, stayed, lost, local>>
      BY <1>1 DEF allVars, vars, loop
    <2>2. WalkState'
      BY <2>1 DEF WalkState, Walking, Begun
    <2>3. InPlace' = InPlace
      BY <2>1 DEF InPlace
    <2> QED
      BY <2>1, <2>2, <2>3 DEF PlaceInv
  <1>2. CASE NextPath
    BY <1>2, NextPathKeepsState, NextPathKeepsPlace
  <1> QED
    BY <1>1, <1>2, BuildKeeps, StartKeeps, ClearKeeps, ChangeKeeps DEF NextWalk

LEMMA StayersAreSeen == WalkState /\ PlaceInv => StayersSeenOnce
  <1> SUFFICES ASSUME WalkState, PlaceInv PROVE StayersSeenOnce
    OBVIOUS
  <1>1. /\ \A n \in InPlace : n \in Node /\ seen[n] \in Nat
        /\ InPlace \subseteq Attached(tree) /\ Rooted(tree) /\ NoNode \notin Node
        /\ \A n \in InPlace \ {Root} : tree.parent[n] \in InPlace
    BY InPlaceIs DEF WalkState, Sound
  <1>2. \A n \in InPlace : seen[n] <= 1
    BY DEF PlaceInv
  <1>3. ASSUME WalkOver, NEW n \in InPlace PROVE seen[n] = 1 \/ n \in lost
    <2> DEFINE Good == {m \in Node : m \in InPlace => seen[m] = 1 \/ m \in lost}
    <2>1. yielded = NoNode /\ stack = <<>> /\ seen[Root] > 0
      BY <1>3 DEF WalkOver, WalkState, Walking
    <2>2. ASSUME NEW m \in Attached(tree), m = Root \/ tree.parent[m] \in Good PROVE m \in Good
      <3>1. m \in Node
        BY DEF Attached, Born
      <3>2. CASE m = Root
        BY <1>1, <1>2, <2>1, <3>1, <3>2
      <3>3. CASE m \in InPlace \ {Root}
        <4>1. tree.parent[m] \in InPlace /\ (seen[tree.parent[m]] = 1 \/ tree.parent[m] \in lost)
          BY <1>1, <2>2, <3>3
        <4>2. tree.parent[m] # yielded /\ ~ Has(stack, m)
          BY <1>1, <2>1, <4>1, EmptyHasNone
        <4> QED
          BY <3>1, <3>3, <4>1, <4>2 DEF PlaceInv
      <3> QED
        BY <3>1, <3>2, <3>3
    <2> HIDE DEF Good
    <2>3. Attached(tree) \subseteq Good
      BY <1>1, <2>2, AlongParents
    <2> QED
      BY <1>1, <1>3, <2>3 DEF Good
  <1> QED
    BY <1>2, <1>3 DEF StayersSeenOnce

\* A path that was there when a loop over the package began, and that stays
\* where it is, is yielded once and only once, whatever the body of the loop
\* does to others (all_paths and walk of FSPath).
THEOREM StayersAreSeenOnce == WalkSpec => []StayersSeenOnce
  <1>1. InitWalk => WalkState /\ PlaceInv
    BY InitWalkState
  <1>2. WalkState /\ PlaceInv /\ [NextWalk]_allVars => WalkState' /\ PlaceInv'
    BY WalkStepKeeps
  <1>3. WalkState /\ PlaceInv => StayersSeenOnce
    BY StayersAreSeen
  <1> QED
    BY <1>1, <1>2, <1>3, PTL DEF WalkSpec

-----------------------------------------------------------------------------
(* What a loop is not given.                                                 *)

\* A loop over all_paths that leaves alone what is not at or below its current
\* path has the directories of the package listed, and waiting are paths that
\* are in it, not below the current one and not below one that comes first.
AheadInv ==
    local /\ walker = "all_paths" /\ Begun =>
        /\ \A m \in Attached(tree) : IsDir(tree, m) => m \in Present(tree)
        /\ \A i \in 1 .. Len(stack) :
               stack[i] \in Present(tree) /\ ~ Below(tree, stack[i], yielded)
        /\ \A i, j \in 1 .. Len(stack) : i < j => ~ Below(tree, stack[j], stack[i])

\* What is not at or below the current path stays so if the loop is local.
LEMMA ChainStays ==
    ASSUME WalkState, Change, local', NEW top
    PROVE  \A n \in Present(tree) : ~ Below(tree, n, yielded) /\ ~ Below(tree, n, top) =>
               n \in Present(tree') /\ ~ Below(tree', n, yielded) /\ ~ Below(tree', n, top)
  <1> DEFINE T == {m \in Present(tree) : ~ Below(tree, m, yielded) /\ ~ Below(tree, m, top)}
             off == {n \in Present(tree) :
                        n \notin Present(tree') \/ tree'.parent[n] # tree.parent[n]}
  <1>1. off \subseteq Beneath(tree, Present(tree), yielded)
    BY DEF Change
  <1>2. \A m \in T : m \in Present(tree') /\ tree'.parent[m] = tree.parent[m]
    BY <1>1 DEF Beneath
  <1>3. Rooted(tree) /\ Rooted(tree') /\ Root # NoNode
    BY ChangeKeepsState, NodeAssumption DEF WalkState, Sound, Evolved
  <1>4. ASSUME NEW m \in T PROVE tree.parent[m] \in T \cup {NoNode}
    <2>1. CASE m = Root
      BY <1>3, <2>1 DEF Rooted
    <2>2. CASE m # Root
      <3>1. m \in Born(tree) /\ tree.parent[m] \in Present(tree) /\ tree.parent[m] # NoNode
        BY <1>3, <2>2, PresentIs, AttachedUp, NodeAssumption DEF Born
      <3> QED
        BY <1>4, <3>1, BelowUp
    <2> QED
      BY <2>1, <2>2
  <1>5. T \subseteq Born(tree')
    BY <1>2, <1>3, PresentIs, AttachedUp
  <1>6. yielded \notin T /\ top \notin T
    BY BelowItself
  <1>7. T = T /\ \A m \in Present(tree) :
            ~ Below(tree, m, yielded) /\ ~ Below(tree, m, top) => m \in T
    OBVIOUS
  <1> HIDE DEF T, off
  <1>8. \A m \in T : tree'.parent[m] \in T \cup {NoNode}
    BY <1>2, <1>4
  <1>9. \A m \in T : Avoids(tree', m, yielded) /\ Avoids(tree', m, top)
    BY <1>5, <1>6, <1>8, ClosedAvoids
  <1> QED
    BY <1>2, <1>7, <1>9 DEF Below

LEMMA ChangeKeepsAhead ==
    ASSUME WalkState, AheadInv, Change
    PROVE  AheadInv'
  <1>1. /\ UNCHANGED <<walker, yielded, children, stack, seen>>
        /\ Evolved(tree, tree') /\ WalkState' /\ (local' => local)
    BY ChangeKeepsState DEF Change
  <1> SUFFICES ASSUME local', walker = "all_paths", Begun PROVE AheadInv'
    BY <1>1 DEF AheadInv, Begun
  <1>2. /\ \A m \in Attached(tree) : IsDir(tree, m) => m \in Present(tree)
        /\ \A i \in 1 .. Len(stack) :
               stack[i] \in Present(tree) /\ ~ Below(tree, stack[i], yielded)
        /\ \A i, j \in 1 .. Len(stack) : i < j => ~ Below(tree, stack[j], stack[i])
    BY <1>1 DEF AheadInv
  <1>3. /\ Rooted(tree) /\ Rooted(tree') /\ Sound(tree', Attached(tree'))
        /\ Attached(tree') \subseteq Born(tree') /\ Root \in Born(tree)
        /\ Root # NoNode /\ NoNode \notin Node
    BY <1>1, AttachedUp, NodeAssumption DEF WalkState, Sound, Rooted
  <1>4. ASSUME NEW m \in Attached(tree') \cap Born(tree), IsDir(tree', m)
        PROVE  m \in Present(tree')
    <2>1. m \in Attached(tree)
      BY <1>1, <1>3, <1>4, DetachedStays
    <2>2. IsDir(tree, m) /\ ~ Detached(tree', m)
      BY <1>1, <1>4 DEF IsDir, Evolved, Attached
    <2>3. m \in Present(tree)
      BY <1>2, <2>1, <2>2
    <2> QED
      BY <2>2, <2>3 DEF Change
  <1>5. ASSUME NEW m \in Attached(tree'), IsDir(tree', m), m \notin Born(tree)
        PROVE  m \in Present(tree')
    <2>1. /\ tree'.parent[m] \in Born(tree) /\ tree'.child[tree'.parent[m]][tree'.name[m]] = m
          /\ m # Root
      BY <1>1, <1>3, <1>5, AttachedUp DEF Evolved
    <2>2. tree'.parent[m] \in Attached(tree') /\ IsDir(tree', tree'.parent[m])
      <3>1. tree'.parent[m] \in Attached(tree') /\ tree'.parent[m] # NoNode
        BY <1>3, <1>5, <2>1, AttachedUp DEF Born
      <3> QED
        BY <1>3, <1>5, <3>1 DEF Sound
    <2>3. tree'.parent[m] \in Present(tree')
      BY <1>4, <2>1, <2>2
    <2>4. PICK S : S = Present(tree') \cup {m}
      OBVIOUS
    <2>5. S \in SUBSET Attached(tree')
      BY <1>3, <1>5, <2>4, PresentIs
    <2>6. \A n \in S : n = Root \/ (/\ tree'.parent[n] \in S
                                   /\ tree'.child[tree'.parent[n]][tree'.name[n]] = n)
      BY <1>3, <2>1, <2>3, <2>4, PresentIs
    <2>7. S \subseteq Present(tree')
      BY <1>3, <2>5, <2>6, PresentIs
    <2> QED
      BY <2>4, <2>7
  <1>6. ASSUME NEW i \in 1 .. Len(stack)
        PROVE  stack[i] \in Present(tree') /\ ~ Below(tree', stack[i], yielded)
    BY <1>2, <1>6, ChainStays
  <1>7. ASSUME NEW i \in 1 .. Len(stack), NEW j \in 1 .. Len(stack), i < j
        PROVE  ~ Below(tree', stack[j], stack[i])
    BY <1>2, <1>7, ChainStays
  <1> QED
    BY <1>1, <1>4, <1>5, <1>6, <1>7 DEF AheadInv

\* Each element of a sequence is related to those after it.
Ranked(s, R) == \A i, j \in 1 .. Len(s) : i < j => <<s[i], s[j]>> \in R

LEMMA RankedPopped ==
    ASSUME NEW S, NEW a \in Seq(S), NEW b \in Seq(S), a \o b # <<>>,
           NEW R, Ranked(a, R), Ranked(b, R), \A x, y : Has(a, x) /\ Has(b, y) => <<x, y>> \in R
    PROVE  /\ Ranked(Tail(a \o b), R)
           /\ \A x : Has(Tail(a \o b), x) => <<Head(a \o b), x>> \in R
  <1>1. PICK r : r = a \o b
    OBVIOUS
  <1>2. PICK h, q : h = Head(r) /\ q = Tail(r)
    OBVIOUS
  <1>3. PICK A, B : A = Len(a) /\ B = Len(b)
    OBVIOUS
  <1>4. A \in Nat /\ B \in Nat /\ r \in Seq(S) /\ Len(r) = A + B
    BY <1>1, <1>3
  <1>5. \A i \in 1 .. A + B : r[i] = IF i <= A THEN a[i] ELSE b[i - A]
    BY <1>1, <1>3
  <1>6. A + B > 0
    BY <1>1, <1>4
  <1>7. h \in S /\ q \in Seq(S) /\ h = r[1] /\ Len(q) = A + B - 1
    BY <1>2, <1>4, <1>6
  <1>8. \A i \in 1 .. A + B - 1 : q[i] = r[i + 1]
    BY <1>2, <1>4, <1>6
  <1>9. ASSUME NEW i \in 1 .. A + B, NEW j \in 1 .. A + B, i < j PROVE <<r[i], r[j]>> \in R
    <2>1. CASE j <= A
      <3>1. i \in 1 .. A /\ j \in 1 .. A /\ i <= A
        BY <1>4, <1>9, <2>1
      <3> QED
        BY <1>3, <1>5, <1>9, <2>1, <3>1 DEF Ranked
    <2>2. CASE ~ (i <= A)
      <3>1. i - A \in 1 .. B /\ j - A \in 1 .. B /\ i - A < j - A /\ ~ (j <= A)
        BY <1>4, <1>9, <2>2
      <3> QED
        BY <1>3, <1>5, <1>9, <2>2, <3>1 DEF Ranked
    <2>3. CASE i <= A /\ ~ (j <= A)
      <3>1. i \in 1 .. A /\ j - A \in 1 .. B
        BY <1>4, <1>9, <2>3
      <3>2. Has(a, r[i]) /\ Has(b, r[j])
        BY <1>3, <1>5, <1>9, <2>3, <3>1 DEF Has
      <3> QED
        BY <3>2
    <2> QED
      BY <1>4, <1>9, <2>1, <2>2, <2>3
  <1>10. ASSUME NEW i \in 1 .. A + B - 1, NEW j \in 1 .. A + B - 1, i < j
         PROVE  <<q[i], q[j]>> \in R
    <2>1. i + 1 \in 1 .. A + B /\ j + 1 \in 1 .. A + B /\ i + 1 < j + 1
      BY <1>4, <1>10
    <2> QED
      BY <1>8, <1>9, <1>10, <2>1
  <1>11. ASSUME NEW j \in 1 .. A + B - 1 PROVE <<h, q[j]>> \in R
    <2>1. 1 \in 1 .. A + B /\ j + 1 \in 1 .. A + B /\ 1 < j + 1
      BY <1>4, <1>6, <1>11
    <2> QED
      BY <1>7, <1>8, <1>9, <1>11, <2>1
  <1> QED
    BY <1>1, <1>2, <1>7, <1>10, <1>11 DEF Ranked, Has

\* What all_paths opens is listed, and its elements are side by side.
LEMMA OpenedAhead ==
    ASSUME WalkState, AheadInv, Walking, Begun, local, walker = "all_paths"
    PROVE  /\ Opened \in Seq(Born(tree) \ {Root})
           /\ \A x : Once(Opened, x)
           /\ \A x : Has(Opened, x) => x \in Present(tree) \ {Root} /\ tree.parent[x] = yielded
  <1>1. /\ yielded \in Born(tree) /\ Sound(tree, Attached(tree)) /\ Rooted(tree)
        /\ Attached(tree) \subseteq Born(tree) /\ Born(tree) \subseteq Node /\ NoNode \notin Node
    BY AttachedUp, NodeAssumption DEF WalkState, Walking, Sound, Born
  <1>2. CASE Detached(tree, yielded)
    <2>1. Opened = <<>>
      BY <1>2 DEF Opened
    <2> QED
      BY <2>1, EmptyHasNone
  <1>3. CASE ~ Detached(tree, yielded)
    <2>1. Opened = SortedChildren(tree, yielded) /\ yielded \in Attached(tree)
      BY <1>1, <1>3 DEF Opened, Attached
    <2>2. /\ Opened \in Seq(Born(tree) \ {Root})
          /\ \A x : Once(Opened, x)
          /\ \A x : Has(Opened, x) => /\ x \in Attached(tree) \ {Root} /\ tree.parent[x] = yielded
                                      /\ tree.child[yielded][tree.name[x]] = x
      BY <1>1, <2>1, ChildrenAre
    <2>3. ASSUME NEW x, Has(Opened, x) PROVE x \in Present(tree)
      <3>1. /\ x \in Attached(tree) \ {Root} /\ tree.parent[x] = yielded
            /\ tree.child[yielded][tree.name[x]] = x
        BY <2>2, <2>3
      <3>2. IsDir(tree, yielded)
        <4>1. yielded # NoNode
          BY <1>1
        <4> QED
          BY <1>1, <3>1, <4>1 DEF Sound
      <3>3. yielded \in Present(tree)
        BY <2>1, <3>2 DEF AheadInv
      <3>4. PICK S : S = Present(tree) \cup {x}
        OBVIOUS
      <3>5. S \in SUBSET Attached(tree)
        BY <1>1, <3>1, <3>4, PresentIs
      <3>6. \A n \in S : n = Root \/ (/\ tree.parent[n] \in S
                                     /\ tree.child[tree.parent[n]][tree.name[n]] = n)
        BY <1>1, <3>1, <3>3, <3>4, PresentIs
      <3>7. S \subseteq Present(tree)
        BY <1>1, <3>5, <3>6, PresentIs
      <3> QED
        BY <3>4, <3>7
    <2> QED
      BY <2>2, <2>3
  <1> QED
    BY <1>2, <1>3

LEMMA NextPathKeepsAhead ==
    ASSUME WalkState, AheadInv, NextPath
    PROVE  AheadInv'
  <1> DEFINE rest == Opened \o stack
  <1>1. Walking /\ UNCHANGED <<tree, rw, walker, changes, stayed, lost, local>>
    BY DEF NextPath, vars
  <1>2. /\ yielded \in Born(tree) /\ Rooted(tree) /\ stack \in Seq(Born(tree) \ {Root})
        /\ Begun /\ Born(tree) \subseteq Node /\ NoNode \notin Node
    <2>1. seen[yielded] > 0 /\ yielded \in Born(tree) /\ Born(tree) \subseteq Node
      BY <1>1 DEF WalkState, Walking, Born
    <2>2. Begun
      BY <2>1 DEF WalkState
    <2> QED
      BY <2>1, <2>2, NodeAssumption DEF WalkState, Sound
  <1> SUFFICES ASSUME local, walker = "all_paths" PROVE AheadInv'
    BY <1>1 DEF AheadInv
  <1>3. /\ \A m \in Attached(tree) : IsDir(tree, m) => m \in Present(tree)
        /\ \A i \in 1 .. Len(stack) :
               stack[i] \in Present(tree) /\ ~ Below(tree, stack[i], yielded)
        /\ \A i, j \in 1 .. Len(stack) : i < j => ~ Below(tree, stack[j], stack[i])
    BY <1>2 DEF AheadInv
  <1>4. CASE rest = <<>>
    <2>1. stack' = stack /\ yielded' = NoNode
      BY <1>4 DEF NextPath
    <2>2. stack = <<>>
      <3>1. Opened \in Seq(Born(tree) \ {Root})
        BY <1>1, <1>2, OpenedAhead
      <3> QED
        BY <1>2, <1>4, <3>1
    <2>3. Len(stack) = 0
      BY <2>2
    <2> QED
      BY <1>1, <1>3, <2>1, <2>3 DEF AheadInv
  <1>5. CASE rest # <<>>
    <2>1. /\ Opened \in Seq(Born(tree) \ {Root})
          /\ \A x : Once(Opened, x)
          /\ \A x : Has(Opened, x) => x \in Present(tree) \ {Root} /\ tree.parent[x] = yielded
      BY <1>1, <1>2, OpenedAhead
    <2>2. PICK o : o = Opened
      OBVIOUS
    <2>3. PICK h, q : h = Head(o \o stack) /\ q = Tail(o \o stack)
      OBVIOUS
    <2>4. o \o stack # <<>> /\ yielded' = h /\ stack' = q
      BY <1>5, <2>2, <2>3 DEF NextPath, Yield
    <2>5. PICK R : R = {e \in Node \X Node : ~ Below(tree, e[2], e[1])}
      OBVIOUS
    <2>6. Present(tree) \subseteq Born(tree)
      BY <1>2, PresentIs, AttachedUp
    <2>7. Ranked(o, R)
      <3> SUFFICES ASSUME NEW i \in 1 .. Len(o), NEW j \in 1 .. Len(o), i < j
                   PROVE  <<o[i], o[j]>> \in R
        BY DEF Ranked
      <3>1. PICK x, y : x = o[i] /\ y = o[j]
        OBVIOUS
      <3>2. Has(o, x) /\ Has(o, y)
        BY <3>1 DEF Has
      <3>3. x # y
        BY <2>1, <2>2, <3>1 DEF Once
      <3>4. /\ x \in Born(tree) /\ y \in Born(tree)
            /\ tree.parent[x] = yielded /\ tree.parent[y] = yielded
        BY <2>1, <2>2, <2>6, <3>2
      <3>5. yielded # NoNode
        BY <1>2
      <3>6. ~ Below(tree, yielded, x)
        BY <1>2, <3>4, <3>5, ParentNotBelow DEF Below
      <3>7. ~ Below(tree, y, x)
        BY <3>3, <3>4, <3>6, BelowUp
      <3> QED
        BY <1>2, <2>5, <3>1, <3>4, <3>7
    <2>8. Ranked(stack, R)
      BY <1>2, <1>3, <2>5, <2>6 DEF Ranked
    <2>9. ASSUME NEW x, NEW y, Has(o, x), Has(stack, y) PROVE <<x, y>> \in R
      <3>1. x \in Born(tree) /\ tree.parent[x] = yielded /\ yielded # NoNode
        BY <1>2, <2>1, <2>2, <2>6, <2>9
      <3>2. y \in Born(tree) /\ ~ Below(tree, y, yielded)
        BY <1>3, <2>6, <2>9 DEF Has
      <3>3. Below(tree, x, yielded)
        BY <3>1, BelowUp, BelowItself
      <3>4. ~ Below(tree, y, x)
        BY <3>2, <3>3, BelowTrans
      <3> QED
        BY <1>2, <2>5, <3>1, <3>2, <3>4
    <2>10. o \in Seq(Born(tree) \ {Root}) /\ stack \in Seq(Born(tree) \ {Root})
      BY <1>2, <2>1, <2>2
    <2>11. Ranked(q, R) /\ \A x : Has(q, x) => <<h, x>> \in R
      BY <2>3, <2>4, <2>7, <2>8, <2>9, <2>10, RankedPopped
    <2>12. \A x : Has(q, x) => Has(o, x) \/ Has(stack, x)
      BY <2>3, <2>4, <2>10, Popped
    <2>13. \A x : Has(q, x) => x \in Present(tree)
      BY <1>3, <2>1, <2>2, <2>12 DEF Has
    <2>14. ASSUME NEW i \in 1 .. Len(q) PROVE q[i] \in Present(tree) /\ ~ Below(tree, q[i], h)
      <3>1. Has(q, q[i])
        BY DEF Has
      <3> QED
        BY <2>5, <2>11, <2>13, <3>1
    <2>15. \A i, j \in 1 .. Len(q) : i < j => ~ Below(tree, q[j], q[i])
      BY <2>5, <2>11 DEF Ranked
    <2> HIDE DEF rest
    <2> QED
      BY <1>1, <1>3, <2>4, <2>14, <2>15 DEF AheadInv
  <1> QED
    BY <1>4, <1>5

LEMMA AheadKeeps ==
    ASSUME WalkState, AheadInv, [NextWalk]_allVars
    PROVE  AheadInv'
  <1>1. CASE UNCHANGED allVars
    BY <1>1 DEF AheadInv, Begun, allVars, vars, loop
  <1>2. CASE Build
    <2>1. seen[Root] = 0 /\ seen' = seen
      BY <1>2 DEF Build
    <2> QED
      BY <2>1 DEF AheadInv, Begun
  <1>3. CASE StartWalk
    <2>1. /\ tree' = tree /\ yielded' = Root /\ stack' = <<>> /\ seen[Root] = 0
      BY <1>3 DEF StartWalk, Yield, vars
    <2>2. Rooted(tree) /\ Complete(tree, Attached(tree))
      BY <2>1 DEF WalkState, Begun, TreeInv, Sound
    <2>3. Attached(tree) \subseteq Present(tree)
      <3>1. PICK S : S = Attached(tree)
        OBVIOUS
      <3>2. \A n \in S : n = Root \/ (/\ tree.parent[n] \in S
                                     /\ tree.child[tree.parent[n]][tree.name[n]] = n)
        <4>1. NoNode \notin Attached(tree)
          BY NodeAssumption DEF Attached, Born
        <4> QED
          BY <2>2, <3>1, <4>1, AttachedUp DEF Complete
      <3> QED
        BY <2>2, <3>1, <3>2, PresentIs
    <2>4. Len(<<>>) = 0
      OBVIOUS
    <2> QED
      BY <2>1, <2>3, <2>4 DEF AheadInv
  <1>4. CASE NextPath
    BY <1>4, NextPathKeepsAhead
  <1>5. CASE ClearChildren
    BY <1>5 DEF ClearChildren, vars, AheadInv, Begun
  <1>6. CASE Change
    BY <1>6, ChangeKeepsAhead
  <1> QED
    BY <1>1, <1>2, <1>3, <1>4, <1>5, <1>6 DEF NextWalk

LEMMA AheadIsAttached ==
    ASSUME WalkState, AheadInv, [NextWalk]_allVars, local, walker = "all_paths", seen' # seen
    PROVE  ~ Detached(tree, yielded')
  <1>1. Rooted(tree) /\ stack \in Seq(Born(tree) \ {Root})
    BY DEF WalkState, Sound
  <1>2. CASE StartWalk
    BY <1>1, <1>2, AttachedUp DEF StartWalk, Yield, Attached
  <1>3. CASE NextPath
    <2>1. Walking /\ Opened \o stack # <<>> /\ yielded' = Head(Opened \o stack)
      BY <1>3 DEF NextPath, Yield
    <2>2. Begun
      <3>1. seen[yielded] > 0 /\ yielded \in Node
        BY <2>1 DEF WalkState, Walking, Born
      <3> QED
        BY <3>1 DEF WalkState
    <2>3. /\ Opened \in Seq(Born(tree) \ {Root})
          /\ \A x : Has(Opened, x) => x \in Present(tree) \ {Root}
      BY <2>1, <2>2, OpenedAhead
    <2>4. \A x : Has(stack, x) => x \in Present(tree)
      BY <2>2 DEF AheadInv, Has
    <2>5. PICK h : h = Head(Opened \o stack)
      OBVIOUS
    <2>6. Has(Opened, h) \/ Has(stack, h)
      BY <1>1, <2>1, <2>3, <2>5, Popped
    <2>7. h \in Attached(tree)
      BY <1>1, <2>3, <2>4, <2>6, PresentIs
    <2> QED
      BY <2>1, <2>5, <2>7 DEF Attached
  <1>4. StartWalk \/ NextPath
    BY DEF NextWalk, Build, ClearChildren, Change, allVars
  <1> QED
    BY <1>2, <1>3, <1>4

\* A loop over all_paths that only takes off what is at or below its current
\* path is given paths that are in the package, as apply_compression relies on.
THEOREM YieldedAreAttached == WalkSpec => YieldedIsAttached
  <1>1. InitWalk => WalkState /\ PlaceInv /\ AheadInv
    <2>1. InitWalk => AheadInv
      <3>1. InitWalk => seen[Root] = 0
        BY NodeAssumption DEF InitWalk
      <3> QED
        BY <3>1 DEF AheadInv, Begun
    <2> QED
      BY <2>1, InitWalkState
  <1>2. WalkState /\ PlaceInv /\ AheadInv /\ [NextWalk]_allVars =>
            WalkState' /\ PlaceInv' /\ AheadInv'
    BY WalkStepKeeps, AheadKeeps
  <1>3. WalkState /\ AheadInv /\ [NextWalk]_allVars =>
            [local /\ walker = "all_paths" /\ seen' # seen => ~ Detached(tree, yielded')]_allVars
    BY AheadIsAttached
  <1> QED
    BY <1>1, <1>2, <1>3, PTL DEF WalkSpec, YieldedIsAttached

\* What is lost is not waiting, nor is what is above it, as long as it is in the
\* package: it is if the list of a walk was cleared, above or at the current path.
LostInv ==
    /\ walker = "all_paths" => children = <<>>
    /\ \A n \in lost :
           /\ ~ Has(stack, n)
           /\ Has(children, n) => yielded \notin Attached(tree)
           /\ n \in Attached(tree) =>
                  /\ walker = "walk"
                  /\ \A m \in Born(tree) : Below(tree, n, m) =>
                         /\ ~ Has(stack, m)
                         /\ Has(children, m) => yielded \notin Attached(tree)
                         /\ m = yielded => children = <<>>

\* Of what is in place nothing below the current path was yielded or waits.
LEMMA NothingBelow ==
    ASSUME WalkState, PlaceInv, yielded \in InPlace
    PROVE  \A n \in InPlace : Below(tree, n, yielded) /\ n # yielded =>
               seen[n] # 1 /\ ~ Has(stack, n)
  <1> DEFINE Good == {n \in Node : n \in InPlace /\ Below(tree, n, yielded) /\ n # yielded =>
                                       seen[n] # 1 /\ ~ Has(stack, n)}
  <1>1. /\ Rooted(tree) /\ InPlace \subseteq Attached(tree) /\ Attached(tree) \subseteq Born(tree)
        /\ Born(tree) \subseteq Node
    BY InPlaceIs DEF WalkState, Sound
  <1>2. ASSUME NEW n \in Attached(tree), n = Root \/ tree.parent[n] \in Good PROVE n \in Good
    <2> SUFFICES ASSUME n \in InPlace, Below(tree, n, yielded), n # yielded
                 PROVE  seen[n] # 1 /\ ~ Has(stack, n)
      BY <1>1
    <2>1. n # Root
      BY <1>1, RootBelow
    <2>2. tree.parent[n] \in InPlace /\ Below(tree, tree.parent[n], yielded)
      BY <1>1, <2>1, InPlaceIs, BelowUp
    <2>3. tree.parent[n] = yielded \/ seen[tree.parent[n]] # 1
      BY <1>2, <2>1, <2>2
    <2> QED
      BY <2>1, <2>3 DEF PlaceInv
  <1> HIDE DEF Good
  <1>3. Attached(tree) \subseteq Good
    BY <1>1, <1>2, AlongParents
  <1> QED
    BY <1>1, <1>3 DEF Good

\* All that is above something in place that was yielded was yielded, too.
LEMMA AllAbove ==
    ASSUME WalkState, PlaceInv
    PROVE  \A n \in InPlace : \A m : seen[n] = 1 /\ Below(tree, n, m) => m \in InPlace /\ seen[m] = 1
  <1> SUFFICES ASSUME NEW m
               PROVE  \A n \in InPlace : seen[n] = 1 /\ Below(tree, n, m) =>
                          m \in InPlace /\ seen[m] = 1
    OBVIOUS
  <1> DEFINE Good == {n \in Node : n \in InPlace /\ seen[n] = 1 /\ Below(tree, n, m) =>
                                       m \in InPlace /\ seen[m] = 1}
  <1>1. /\ Rooted(tree) /\ InPlace \subseteq Attached(tree) /\ Attached(tree) \subseteq Born(tree)
        /\ Born(tree) \subseteq Node
    BY InPlaceIs DEF WalkState, Sound
  <1>2. ASSUME NEW n \in Attached(tree), n = Root \/ tree.parent[n] \in Good PROVE n \in Good
    <2> SUFFICES ASSUME n \in InPlace, seen[n] = 1, Below(tree, n, m)
                 PROVE  m \in InPlace /\ seen[m] = 1
      BY <1>1
    <2>1. CASE n = m
      BY <2>1
    <2>2. CASE n # m
      <3>1. n # Root
        BY <1>1, <2>2, RootBelow
      <3>2. tree.parent[n] \in InPlace /\ Below(tree, tree.parent[n], m)
        BY <1>1, <2>2, <3>1, InPlaceIs, BelowUp
      <3>3. seen[tree.parent[n]] = 1
        BY <3>1 DEF PlaceInv
      <3> QED
        BY <1>2, <3>1, <3>2, <3>3
    <2> QED
      BY <2>1, <2>2
  <1> HIDE DEF Good
  <1>3. Attached(tree) \subseteq Good
    BY <1>1, <1>2, AlongParents
  <1> QED
    BY <1>1, <1>3 DEF Good

\* At the current path, and below it, nothing in place is waiting.
LEMMA NoneWaits ==
    ASSUME WalkState, PlaceInv, Walking, NEW n \in InPlace, Below(tree, n, yielded)
    PROVE  /\ yielded \in InPlace /\ ~ Has(stack, n)
           /\ \A m \in Born(tree) : Below(tree, n, m) => ~ Has(stack, m)
  <1>1. /\ Rooted(tree) /\ InPlace \subseteq Born(tree) /\ stack \in Seq(Born(tree) \ {Root})
        /\ \A m \in InPlace : tree.parent[m] \in InPlace \cup {NoNode}
        /\ seen \in [Node -> Nat] /\ seen[yielded] > 0 /\ InPlace \subseteq Node
    BY InPlaceIs DEF WalkState, Sound, Rooted
  <1>2. \A m : Below(tree, n, m) => m \in InPlace
    BY <1>1, ClosedAvoids DEF Below
  <1>3. yielded \in InPlace
    BY <1>2
  <1>4. seen[yielded] = 1
    BY <1>1, <1>3 DEF PlaceInv
  <1>5. \A m \in InPlace : seen[m] = 1 => ~ Has(stack, m)
    <2>1. ~ Has(stack, Root)
      BY <1>1 DEF Has
    <2> QED
      BY <2>1 DEF PlaceInv
  <1>6. ASSUME NEW m \in Born(tree), Below(tree, n, m) PROVE ~ Has(stack, m)
    <2>1. m \in InPlace
      BY <1>2, <1>6
    <2>2. Below(tree, m, yielded) \/ Below(tree, yielded, m)
      BY <1>1, <1>6, Comparable
    <2>3. CASE Below(tree, yielded, m)
      BY <1>3, <1>4, <1>5, <2>3, AllAbove
    <2>4. CASE Below(tree, m, yielded)
      BY <1>3, <1>4, <1>5, <2>1, <2>4, NothingBelow
    <2> QED
      BY <2>2, <2>3, <2>4
  <1> QED
    BY <1>1, <1>3, <1>6, BelowItself

LEMMA ClearKeepsLost ==
    ASSUME WalkState, PlaceInv, LostInv, ClearChildren
    PROVE  LostInv'
  <1>1. /\ UNCHANGED <<tree, walker, yielded, stack>>
        /\ children # <<>> /\ children' = <<>> /\ Walking
    BY DEF ClearChildren, vars
  <1>2. walker = "walk"
    BY <1>1 DEF LostInv, WalkState
  <1>3. ASSUME NEW n \in lost', n \notin lost
        PROVE  n \in InPlace /\ Below(tree, n, yielded)
    BY <1>3, InPlaceIs DEF ClearChildren, Beneath
  <1>4. ASSUME NEW n \in lost'
        PROVE  /\ ~ Has(stack, n)
               /\ n \in Attached(tree) => \A m \in Born(tree) : Below(tree, n, m) => ~ Has(stack, m)
    <2>1. CASE n \in lost
      BY <2>1 DEF LostInv
    <2>2. CASE n \notin lost
      BY <1>1, <1>3, <1>4, <2>2, NoneWaits
    <2> QED
      BY <2>1, <2>2
  <1> QED
    BY <1>1, <1>2, <1>4, EmptyHasNone DEF LostInv

\* A node that was not moved is where it was, if it is still in the tree.
LEMMA StaysBelow ==
    ASSUME NEW t, Rooted(t), NEW u, Evolved(t, u), NEW n \in Born(t) \cap Attached(u),
           \A x \in Born(t) : Below(t, n, x) => u.parent[x] \in {t.parent[x], NoNode}
    PROVE  /\ n \in Attached(t)
           /\ \A m : Below(u, n, m) => m \in Born(t) /\ Below(t, n, m)
           /\ \A m : Below(t, n, m) => m \in Attached(u)
  <1> DEFINE U == {x \in Born(t) : Below(t, n, x)}
             W == {x \in U : x \in Attached(u)}
  <1>1. /\ Rooted(u) /\ NoNode \notin Attached(u) /\ Attached(u) \subseteq Born(u)
        /\ Born(t) \subseteq Born(u)
    BY NodeAssumption DEF Evolved, Sound, Attached, Born
  <1>2. n \in Attached(t)
    BY <1>1, DetachedStays
  <1>3. ASSUME NEW x \in U PROVE t.parent[x] \in U \cup {NoNode} /\ u.parent[x] \in U \cup {NoNode}
    <2>1. CASE t.parent[x] = NoNode
      BY <1>3, <2>1
    <2>2. CASE t.parent[x] # NoNode
      <3>1. t.parent[x] \in Born(t) /\ Below(t, x, t.parent[x])
        BY <1>3, <2>2, BelowUp, BelowItself DEF Rooted
      <3>2. Below(t, n, t.parent[x])
        BY <1>3, <3>1, BelowTrans
      <3> QED
        BY <1>3, <3>1, <3>2
    <2> QED
      BY <2>1, <2>2
  <1>4. n \in U /\ n \in W
    BY BelowItself
  <1>5. ASSUME NEW x \in W PROVE t.parent[x] \in W \cup {NoNode}
    <2>1. CASE x = Root
      BY <2>1 DEF Rooted
    <2>2. CASE x # Root
      <3>1. u.parent[x] \in Attached(u)
        BY <1>1, <1>5, <2>2, AttachedUp
      <3>2. u.parent[x] = t.parent[x]
        BY <1>1, <1>5, <3>1
      <3> QED
        BY <1>3, <1>5, <3>1, <3>2
    <2> QED
      BY <2>1, <2>2
  <1>6. U \subseteq Born(t) /\ U \subseteq Born(u) /\ W \subseteq Born(t) /\ W \subseteq Attached(u)
    BY <1>1
  <1>7. \A m \in U : Below(t, n, m)
    OBVIOUS
  <1> HIDE DEF U, W
  <1>8. ASSUME NEW m, Below(u, n, m) PROVE m \in U
    BY <1>3, <1>4, <1>6, <1>8, ClosedAvoids DEF Below
  <1>9. ASSUME NEW m, Below(t, n, m) PROVE m \in W
    BY <1>4, <1>5, <1>6, <1>9, ClosedAvoids DEF Below
  <1> QED
    BY <1>2, <1>6, <1>7, <1>8, <1>9

LEMMA ChangeKeepsLost ==
    ASSUME WalkState, PlaceInv, LostInv, Change
    PROVE  LostInv'
  <1> DEFINE put == {n \in Born(tree) : tree'.parent[n] \notin {tree.parent[n], NoNode}}
             moved == UNION {Beneath(tree, Born(tree), n) : n \in put}
             gone == IF Detached(tree', yielded) /\ ~ Detached(tree, yielded)
                     THEN Beneath(tree, InPlace, yielded) ELSE {}
  <1>1. /\ UNCHANGED <<walker, yielded, children, stack, seen>>
        /\ Walking /\ Evolved(tree, tree') /\ yielded \in Born(tree)
        /\ yielded \in Attached(tree') => yielded \in Attached(tree)
    BY ChangeKeepsState DEF WalkState, Walking
  <1>2. lost' = (lost \cup gone) \ moved
    BY DEF Change
  <1>3. Rooted(tree)
    BY DEF WalkState, Sound
  <1>4. ASSUME NEW n \in lost', n \in lost
        PROVE  /\ ~ Has(stack, n)
               /\ Has(children, n) => yielded \notin Attached(tree')
    BY <1>1, <1>4 DEF LostInv
  <1>5. ASSUME NEW n \in lost', n \notin lost
        PROVE  /\ n \in InPlace /\ Below(tree, n, yielded) /\ Detached(tree', yielded)
    BY <1>2, <1>5 DEF Beneath
  <1>6. ASSUME NEW n \in lost'
        PROVE  /\ n \in Born(tree)
               /\ \A x \in Born(tree) : Below(tree, n, x) =>
                      tree'.parent[x] \in {tree.parent[x], NoNode}
    <2>1. n \in Born(tree)
      BY <1>5, <1>6, InPlaceIs DEF WalkState
    <2> QED
      BY <1>2, <1>6, <2>1 DEF Beneath
  <1> HIDE DEF put, moved, gone
  <1>7. ASSUME NEW n \in lost', n \notin lost
        PROVE  ~ Has(stack, n) /\ yielded \notin Attached(tree') /\ n \notin Attached(tree')
    <2>1. ~ Has(stack, n) /\ yielded \notin Attached(tree')
      BY <1>1, <1>5, <1>7, NoneWaits DEF Attached
    <2>2. ASSUME n \in Attached(tree') PROVE yielded \in Attached(tree')
      BY <1>1, <1>3, <1>5, <1>6, <1>7, <2>2, StaysBelow
    <2> QED
      BY <2>1, <2>2
  <1>8. ASSUME NEW n \in lost', n \in Attached(tree')
        PROVE  /\ walker = "walk"
               /\ \A m \in Born(tree') : Below(tree', n, m) =>
                      /\ ~ Has(stack, m)
                      /\ Has(children, m) => yielded \notin Attached(tree')
                      /\ m = yielded => children = <<>>
    <2>1. n \in lost
      BY <1>7, <1>8
    <2>2. /\ n \in Attached(tree)
          /\ \A m : Below(tree', n, m) => m \in Born(tree) /\ Below(tree, n, m)
      BY <1>1, <1>3, <1>6, <1>8, StaysBelow
    <2> QED
      BY <1>1, <2>1, <2>2 DEF LostInv
  <1> QED
    BY <1>1, <1>4, <1>7, <1>8 DEF LostInv

\* The path that the iterator takes next is not lost, nor above what is lost.
LEMMA OpenedNotLost ==
    ASSUME WalkState, LostInv, Walking, NEW n \in lost
    PROVE  /\ ~ Has(Opened, n)
           /\ n \in Attached(tree) =>
                  \A m \in Born(tree) : Below(tree, n, m) => ~ Has(Opened, m)
  <1>1. /\ yielded \in Born(tree) /\ Sound(tree, Attached(tree))
        /\ walker \in {"all_paths", "walk"}
    BY DEF WalkState, Walking
  <1>2. CASE Detached(tree, yielded)
    <2>1. Opened = <<>>
      BY <1>2 DEF Opened
    <2> QED
      BY <2>1, EmptyHasNone
  <1>3. CASE ~ Detached(tree, yielded) /\ walker = "walk"
    <2>1. Opened = children /\ yielded \in Attached(tree)
      BY <1>1, <1>3 DEF Opened, Attached
    <2> QED
      BY <2>1 DEF LostInv
  <1>4. CASE ~ Detached(tree, yielded) /\ walker = "all_paths"
    <2>1. Opened = SortedChildren(tree, yielded) /\ yielded \in Attached(tree)
      BY <1>1, <1>4 DEF Opened, Attached
    <2>2. \A x : Has(Opened, x) => x \in Attached(tree)
      BY <1>1, <2>1, ChildrenAre
    <2>3. n \notin Attached(tree)
      BY <1>4 DEF LostInv
    <2> QED
      BY <2>2, <2>3
  <1> QED
    BY <1>1, <1>2, <1>3, <1>4

LEMMA NextIsNotLost ==
    ASSUME WalkState, PlaceInv, LostInv, NextPath, NEW n \in lost
    PROVE  /\ seen'[n] = seen[n]
           /\ yielded' # n
           /\ ~ Has(stack', n)
           /\ n \in Attached(tree) => \A m \in Born(tree) : Below(tree, n, m) =>
                  ~ Has(stack', m) /\ m # yielded'
  <1> DEFINE rest == Opened \o stack
  <1>1. /\ Walking /\ Opened \in Seq(Born(tree) \ {Root}) /\ stack \in Seq(Born(tree) \ {Root})
        /\ n \in Born(tree) /\ NoNode \notin Born(tree) /\ seen \in [Node -> Nat]
        /\ Born(tree) \subseteq Node
    BY OpenedIs, NodeAssumption DEF NextPath, WalkState, Born
  <1>2. /\ ~ Has(Opened, n) /\ ~ Has(stack, n)
        /\ n \in Attached(tree) => \A m \in Born(tree) : Below(tree, n, m) =>
               ~ Has(Opened, m) /\ ~ Has(stack, m)
    BY <1>1, OpenedNotLost DEF LostInv
  <1>3. CASE rest = <<>>
    <2>1. yielded' = NoNode /\ stack' = stack /\ seen' = seen
      BY <1>3 DEF NextPath
    <2> QED
      BY <1>1, <1>2, <2>1
  <1>4. CASE rest # <<>>
    <2>1. PICK h, q : h = Head(rest) /\ q = Tail(rest)
      OBVIOUS
    <2>2. yielded' = h /\ stack' = q /\ seen' = [seen EXCEPT ![h] = @ + 1]
      BY <1>4, <2>1 DEF NextPath, Yield
    <2>3. \A x : Has(Opened, x) \/ Has(stack, x) <=> x = h \/ Has(q, x)
      BY <1>1, <1>4, <2>1, Popped
    <2>4. \A x : ~ Has(Opened, x) /\ ~ Has(stack, x) => x # h /\ ~ Has(q, x)
      BY <2>3
    <2>5. n # h /\ ~ Has(q, n)
      BY <1>2, <2>4
    <2>6. n \in Attached(tree) => \A m \in Born(tree) : Below(tree, n, m) => m # h /\ ~ Has(q, m)
      BY <1>2, <2>4
    <2>7. seen'[n] = seen[n]
      BY <1>1, <2>2, <2>5
    <2> HIDE DEF rest
    <2> QED
      BY <2>2, <2>5, <2>6, <2>7
  <1> QED
    BY <1>3, <1>4

LEMMA NextPathKeepsLost ==
    ASSUME WalkState, PlaceInv, LostInv, NextPath
    PROVE  LostInv'
  <1>1. Walking /\ UNCHANGED <<tree, rw, walker, changes, stayed, lost, local>>
    BY DEF NextPath, vars
  <1>2. /\ Sound(tree, Attached(tree)) /\ Rooted(tree) /\ Attached(tree) \subseteq Born(tree)
        /\ walker \in {"all_paths", "walk"} /\ WalkState'
    BY AttachedUp, NextPathKeepsState DEF WalkState, Sound
  <1>3. \/ children' = <<>>
        \/ walker = "walk" /\ children' = SortedChildren(tree, yielded')
    BY <1>2 DEF NextPath, Yield
  <1>4. walker = "all_paths" => children' = <<>>
    BY <1>3
  <1>5. ASSUME NEW m, Has(children', m), yielded' \in Attached(tree)
        PROVE  m \in Attached(tree) \ {Root} /\ tree.parent[m] = yielded'
    <2>1. PICK c : c = yielded'
      OBVIOUS
    <2>2. PICK s : s = children'
      OBVIOUS
    <2>3. s = SortedChildren(tree, c) /\ c \in Attached(tree) /\ Has(s, m)
      BY <1>3, <1>5, <2>1, <2>2, EmptyHasNone
    <2>4. m \in Attached(tree) \ {Root} /\ tree.parent[m] = c
      BY <1>2, <2>3, ChildrenAre
    <2> QED
      BY <2>1, <2>4
  <1>6. ASSUME NEW m, Has(children', m), yielded' \in Attached(tree)
        PROVE  m \in Attached(tree) /\ Below(tree, m, yielded') /\ yielded' \in Born(tree)
    <2>1. PICK c : c = yielded'
      OBVIOUS
    <2>2. m \in Attached(tree) \ {Root} /\ tree.parent[m] = c /\ c \in Born(tree) /\ m \in Born(tree)
      BY <1>2, <1>5, <1>6, <2>1
    <2>3. c # NoNode
      BY <2>2, NodeAssumption DEF Born
    <2>4. Below(tree, m, c)
      BY <2>2, <2>3, BelowUp, BelowItself
    <2> QED
      BY <2>1, <2>2, <2>4
  <1>7. ASSUME NEW n \in lost, n \in Attached(tree), NEW m \in Born(tree), Below(tree, n, m)
        PROVE  /\ ~ Has(stack', m) /\ m # yielded'
               /\ Has(children', m) => yielded' \notin Attached(tree)
    <2>1. ~ Has(stack', m) /\ m # yielded'
      BY <1>7, NextIsNotLost
    <2>2. ASSUME Has(children', m), yielded' \in Attached(tree) PROVE FALSE
      <3>1. PICK c : c = yielded'
        OBVIOUS
      <3>2. Below(tree, m, c) /\ c \in Born(tree)
        BY <1>6, <2>2, <3>1
      <3>3. Below(tree, n, c)
        BY <1>7, <3>2, BelowTrans
      <3>4. c # yielded'
        BY <1>7, <3>2, <3>3, NextIsNotLost
      <3> QED
        BY <3>1, <3>4
    <2> QED
      BY <2>1, <2>2
  <1>8. ASSUME NEW n \in lost
        PROVE  ~ Has(stack', n) /\ (Has(children', n) => yielded' \notin Attached(tree))
    <2>1. ~ Has(stack', n)
      BY <1>8, NextIsNotLost
    <2>2. ASSUME Has(children', n), yielded' \in Attached(tree) PROVE FALSE
      <3>1. n \in Attached(tree) /\ n \in Born(tree)
        BY <1>2, <1>6, <2>2
      <3> QED
        BY <1>7, <2>2, <3>1, BelowItself
    <2> QED
      BY <2>1, <2>2
  <1>9. \A n \in lost : n \in Attached(tree) => walker = "walk"
    BY DEF LostInv
  <1> QED
    BY <1>1, <1>4, <1>7, <1>8, <1>9 DEF LostInv

LEMMA LostKeeps ==
    ASSUME WalkState, PlaceInv, LostInv, [NextWalk]_allVars
    PROVE  LostInv' /\ \A n \in lost : seen'[n] = seen[n]
  <1>1. CASE UNCHANGED allVars
    BY <1>1 DEF LostInv, allVars, vars, loop
  <1>2. CASE Build
    <2>1. lost = {} /\ UNCHANGED <<walker, children, lost>>
      BY <1>2 DEF Build, WalkState, Begun, loop
    <2> QED
      BY <2>1 DEF LostInv
  <1>3. CASE StartWalk
    <2>1. lost = {} /\ UNCHANGED <<walker, lost>> /\ (walker = "all_paths" => children' = <<>>)
      BY <1>3 DEF StartWalk, Yield, WalkState, Begun
    <2> QED
      BY <2>1 DEF LostInv
  <1>4. CASE NextPath
    BY <1>4, NextPathKeepsLost, NextIsNotLost
  <1>5. CASE ClearChildren
    BY <1>5, ClearKeepsLost DEF ClearChildren
  <1>6. CASE Change
    BY <1>6, ChangeKeepsLost DEF Change
  <1> QED
    BY <1>1, <1>2, <1>3, <1>4, <1>5, <1>6 DEF NextWalk

\* "if the current path is removed, then none of its children will be returned"
\* (all_paths, plugin/api/spec.py), nor what is below them, unless it was put
\* elsewhere, nor what is below a path whose children a loop over walk cleared.
THEOREM LostAreNotYielded == WalkSpec => LostIsNotYielded
  <1>1. InitWalk => WalkState /\ PlaceInv /\ LostInv
    <2>1. InitWalk => LostInv
      BY DEF InitWalk, LostInv
    <2> QED
      BY <2>1, InitWalkState
  <1>2. WalkState /\ PlaceInv /\ LostInv /\ [NextWalk]_allVars =>
            WalkState' /\ PlaceInv' /\ LostInv'
    BY WalkStepKeeps, LostKeeps
  <1>3. WalkState /\ PlaceInv /\ LostInv /\ [NextWalk]_allVars =>
            [\A n \in lost : seen'[n] = seen[n]]_allVars
    BY LostKeeps
  <1> QED
    BY <1>1, <1>2, <1>3, PTL DEF WalkSpec, LostIsNotYielded

-----------------------------------------------------------------------------
(* Where paths lead to.                                                      *)

\* What links lead to is a node, or nothing.
LinkMap == [Node -> Node \cup {NoNode}]

LEMMA PartsAre ==
    /\ "." \in Name \cup Dots /\ ".." \in Name \cup Dots /\ <<>> \in PathParts
    /\ \A ps \in PathParts : Len(ps) \in Nat /\ (ps # <<>> => Len(ps) > 0)
    /\ \A ps \in PathParts : ps # <<>> =>
           /\ Head(ps) \in Name \cup Dots /\ Tail(ps) \in PathParts
           /\ Len(Tail(ps)) = Len(ps) - 1
    /\ \A ps \in PathParts : Append(ps, ".") \in PathParts /\ Append(ps, ".") # <<>>
    /\ \A ps, qs \in PathParts : ps \o qs \in PathParts
    /\ \A k \in Dots : k \notin Name
  BY LookupAssumption DEF PathParts, Dots

LEMMA TowardIsNode ==
    ASSUME NEW t \in Trees, NEW leads \in LinkMap, NEW d \in Node, NEW k \in Name \cup Dots,
           NEW isLast
    PROVE  Toward(t, leads, d, k, isLast) \in Node \cup {NoNode}
  <1>1. t.parent \in [Node -> Node \cup {NoNode}] /\ t.child \in [Node -> [Name -> Node \cup {NoNode}]]
    BY DEF Trees
  <1>2. k \notin Dots => k \in Name
    OBVIOUS
  <1> QED
    BY <1>1, <1>2 DEF Toward, LinkMap, Dots

\* Parts are shorter after each.
LEMMA ShorterEnds ==
    ASSUME NEW S \in SUBSET (Node \X PathParts), S # {}
    PROVE  \E x \in S : \A y \in S : Len(x[2]) <= Len(y[2])
  <1> DEFINE L == {Len(x[2]) : x \in S}
  <1>1. L \in SUBSET Nat /\ L # {}
    BY PartsAre
  <1>2. \E i \in L : \A j \in L : i <= j
    <2> HIDE DEF L
    <2> QED
      BY <1>1, LeastOf
  <1> QED
    BY <1>2

\* Reach is what its definition says.
LEMMA ReachIs ==
    ASSUME NEW t \in Trees, NEW leads \in LinkMap
    PROVE  /\ Reach(t, leads) \in [Node \X PathParts -> Node \cup {NoNode}]
           /\ \A d \in Node, ps \in PathParts :
                  LET next == Toward(t, leads, d, Head(ps), Len(ps) = 1)
                  IN  Reach(t, leads)[<<d, ps>>] =
                          IF ps = <<>> THEN d
                          ELSE IF next = NoNode THEN NoNode
                          ELSE Reach(t, leads)[<<next, Tail(ps)>>]
  <1> DEFINE D == Node \X PathParts
             V == Node \cup {NoNode}
             Next1(x) == Toward(t, leads, x[1], Head(x[2]), Len(x[2]) = 1)
             Top == {x \in D : x[2] = <<>> \/ Next1(x) = NoNode}
             par == [x \in D |-> <<Next1(x), Tail(x[2])>>]
             base == [x \in Top |-> IF x[2] = <<>> THEN x[1] ELSE NoNode]
             step == [e \in D \X V |-> e[2]]
  <1>1. ASSUME NEW x \in D PROVE x[1] \in Node /\ x[2] \in PathParts /\ x = <<x[1], x[2]>>
    OBVIOUS
  <1>2. ASSUME NEW x \in D, x[2] # <<>> PROVE Next1(x) \in V
    BY <1>1, <1>2, PartsAre, TowardIsNode
  <1>3. ASSUME NEW x \in D \ Top PROVE par[x] \in D /\ Len(par[x][2]) < Len(x[2])
    <2>1. x[2] # <<>> /\ Next1(x) \in Node /\ x \in D
      BY <1>2, <1>3
    <2>2. Tail(x[2]) \in PathParts /\ Len(Tail(x[2])) = Len(x[2]) - 1 /\ Len(x[2]) \in Nat
      BY <1>1, <2>1, PartsAre
    <2>3. PICK n, ps : n = Next1(x) /\ ps = Tail(x[2])
      OBVIOUS
    <2>4. par[x] = <<n, ps>>
      BY <2>1, <2>3
    <2>5. n \in Node /\ ps \in PathParts /\ Len(ps) < Len(x[2])
      BY <2>1, <2>2, <2>3
    <2> HIDE DEF par
    <2> QED
      BY <2>4, <2>5
  <1>4. ASSUME NEW S \in SUBSET D, S # {} PROVE \E m \in S : m \in Top \/ par[m] \notin S
    <2>1. PICK m \in S : \A y \in S : Len(m[2]) <= Len(y[2])
      BY <1>4, ShorterEnds
    <2> SUFFICES ASSUME m \notin Top, par[m] \in S PROVE FALSE
      BY <2>1
    <2>2. Len(par[m][2]) < Len(m[2]) /\ par[m] \in D
      BY <1>3
    <2>3. Len(m[2]) <= Len(par[m][2])
      BY <2>1
    <2>4. Len(m[2]) \in Nat /\ Len(par[m][2]) \in Nat
      BY <1>1, <2>2, PartsAre
    <2> QED
      BY <2>2, <2>3, <2>4
  <1>5. Founded(D, Top, par)
    BY <1>3, <1>4 DEF Founded
  <1>6. Top \in SUBSET D /\ base \in [Top -> V] /\ step \in [D \X V -> V]
    OBVIOUS
  <1>7. \E f \in [D -> V] : Recurs(f, D, Top, par, base, step)
    <2> HIDE DEF D, Top, base, step, par, V
    <2> QED
      BY <1>5, <1>6, RecursionDefines
  <1>8. PICK f \in [D -> V] : Recurs(f, D, Top, par, base, step)
    BY <1>7
  <1> DEFINE Is(g) == g = [x \in D |-> IF x[2] = <<>> THEN x[1]
                                      ELSE IF Next1(x) = NoNode THEN NoNode
                                      ELSE g[<<Next1(x), Tail(x[2])>>]]
  <1>9. ASSUME NEW x \in D
        PROVE  f[x] = IF x[2] = <<>> THEN x[1]
                      ELSE IF Next1(x) = NoNode THEN NoNode ELSE f[<<Next1(x), Tail(x[2])>>]
    <2>1. CASE x \in Top
      <3>1. f[x] = base[x] /\ base[x] = IF x[2] = <<>> THEN x[1] ELSE NoNode
        BY <1>8, <2>1 DEF Recurs
      <3> QED
        BY <2>1, <3>1
    <2>2. CASE x \notin Top
      <3>1. f[x] = step[<<x, f[par[x]]>>]
        BY <1>8, <2>2 DEF Recurs
      <3>2. par[x] \in D /\ par[x] = <<Next1(x), Tail(x[2])>>
        BY <1>3, <2>2
      <3>3. step[<<x, f[par[x]]>>] = f[par[x]]
        BY <1>8, <3>2
      <3> QED
        BY <2>2, <3>1, <3>2, <3>3
    <2> QED
      BY <2>1, <2>2
  <1> HIDE DEF par, base, step, Top
  <1>10. Is(f)
    <2> DEFINE w == [x \in D |-> IF x[2] = <<>> THEN x[1]
                                ELSE IF Next1(x) = NoNode THEN NoNode
                                ELSE f[<<Next1(x), Tail(x[2])>>]]
    <2>1. \A x \in D : w[x] = f[x]
      BY <1>9
    <2>2. f = w
      <3>1. w = [x \in D |-> w[x]]
        OBVIOUS
      <3> HIDE DEF w, D
      <3> QED
        BY <2>1, <3>1
    <2> QED
      BY <2>2
  <1>11. Is(Reach(t, leads))
    <2>1. Reach(t, leads) = CHOOSE g : Is(g)
      BY DEF Reach
    <2> HIDE DEF Is
    <2> QED
      BY <1>10, <2>1
  <1> DEFINE r == Reach(t, leads)
  <1> HIDE DEF r
  <1>12. Is(r)
    BY <1>11 DEF r
  <1>13. ASSUME NEW x \in D
         PROVE  r[x] = IF x[2] = <<>> THEN x[1]
                       ELSE IF Next1(x) = NoNode THEN NoNode ELSE r[<<Next1(x), Tail(x[2])>>]
    BY <1>12
  <1>14. \A x \in D : r[x] \in V
    <2> DEFINE B == {x \in D : r[x] \notin V}
    <2> SUFFICES ASSUME B # {} PROVE FALSE
      OBVIOUS
    <2>1. B \in SUBSET D
      OBVIOUS
    <2>2. PICK m \in B : m \in Top \/ par[m] \notin B
      <3> HIDE DEF B
      <3> QED
        BY <1>4, <2>1
    <2>3. m \in D
      OBVIOUS
    <2>4. CASE m \in Top
      BY <1>1, <1>13, <2>3, <2>4 DEF Top
    <2>5. CASE m \notin Top
      <3>1. par[m] \in D
        BY <1>3, <2>3, <2>5
      <3>2. r[par[m]] \in V
        BY <2>2, <2>5, <3>1
      <3>3. r[m] = r[par[m]]
        BY <1>13, <2>3, <2>5, <3>1 DEF Top, par
      <3> QED
        BY <3>2, <3>3
    <2> QED
      BY <2>4, <2>5
  <1>15. r \in [D -> V]
    <2>1. r = [x \in D |-> r[x]]
      BY <1>12
    <2> HIDE DEF D, V
    <2> QED
      BY <1>14, <2>1
  <1>16. ASSUME NEW d \in Node, NEW ps \in PathParts
         PROVE  LET next == Toward(t, leads, d, Head(ps), Len(ps) = 1)
                IN  r[<<d, ps>>] = IF ps = <<>> THEN d
                                   ELSE IF next = NoNode THEN NoNode
                                   ELSE r[<<next, Tail(ps)>>]
    <2>1. <<d, ps>> \in D
      OBVIOUS
    <2> HIDE DEF D
    <2> QED
      BY <1>13, <2>1
  <1> QED
    BY <1>15, <1>16 DEF r

LEMMA LinkStart ==
    ASSUME NEW t \in Trees, NEW to \in [Node -> PathStrings], NEW n \in Links(t)
    PROVE  /\ n \in Node /\ Start(t.parent[n], to[n]) \in Node
           /\ SplitPath(to[n]) \in PathParts /\ Append(SplitPath(to[n]), ".") \in PathParts
  <1>1. n \in Node /\ t.parent[n] \in Node /\ to[n] \in PathStrings
    BY DEF Links, Born, Trees
  <1>2. SplitPath(to[n]) \in PathParts
    BY <1>1, PartsAre DEF SplitPath, PathStrings, PathParts
  <1> QED
    BY <1>1, <1>2, PartsAre, NodeAssumption DEF Start

LEMMA FollowedIs ==
    ASSUME NEW t \in Trees, NEW to \in [Node -> PathStrings], NEW leads \in LinkMap
    PROVE  Followed(t, to, leads) \in LinkMap
  <1>1. ASSUME NEW n \in Links(t)
        PROVE  Reach(t, leads)[<<Start(t.parent[n], to[n]), Append(SplitPath(to[n]), ".")>>]
                   \in Node \cup {NoNode}
    <2>1. PICK d, ps : d = Start(t.parent[n], to[n]) /\ ps = Append(SplitPath(to[n]), ".")
      OBVIOUS
    <2>2. d \in Node /\ ps \in PathParts
      BY <2>1, LinkStart
    <2>3. Reach(t, leads) \in [Node \X PathParts -> Node \cup {NoNode}]
      BY ReachIs
    <2>4. Reach(t, leads)[<<d, ps>>] \in Node \cup {NoNode}
      BY <2>2, <2>3
    <2> QED
      BY <2>1, <2>4
  <1> QED
    BY <1>1 DEF Followed, LinkMap

\* Leads is what its definition says.
LEMMA LeadsAre ==
    ASSUME NEW t \in Trees, NEW to \in [Node -> PathStrings]
    PROVE  /\ \A i \in Nat : Leads(t, to)[i] \in LinkMap
           /\ Leads(t, to)[0] = [n \in Node |-> NoNode]
           /\ \A i \in Nat : Leads(t, to)[i + 1] = Followed(t, to, Leads(t, to)[i])
  <1> DEFINE none == [n \in Node |-> NoNode]
             par == [i \in Nat |-> i - 1]
             Top == {0}
             base == [i \in Top |-> none]
             step == [e \in Nat \X LinkMap |-> Followed(t, to, e[2])]
             Is(g) == g = [i \in Nat |-> IF i = 0 THEN none ELSE Followed(t, to, g[i - 1])]
  <1>1. none \in LinkMap
    BY DEF LinkMap
  <1>2. base \in [Top -> LinkMap]
    BY <1>1
  <1>3. step \in [Nat \X LinkMap -> LinkMap]
    BY FollowedIs
  <1>4. ASSUME NEW S \in SUBSET Nat, S # {} PROVE \E m \in S : m \in Top \/ par[m] \notin S
    <2>1. PICK m \in S : \A j \in S : m <= j
      BY <1>4, LeastOf
    <2>2. m # 0 => m - 1 \in Nat /\ ~ (m <= m - 1) /\ par[m] = m - 1
      OBVIOUS
    <2> QED
      BY <2>1, <2>2
  <1>5. Founded(Nat, Top, par)
    <2>1. \A m \in Nat \ Top : par[m] \in Nat
      OBVIOUS
    <2> QED
      BY <1>4, <2>1 DEF Founded
  <1>6. Top \in SUBSET Nat
    OBVIOUS
  <1>7. \E f \in [Nat -> LinkMap] : Recurs(f, Nat, Top, par, base, step)
    <2> HIDE DEF Top, base, step, par
    <2> QED
      BY <1>2, <1>3, <1>5, <1>6, RecursionDefines
  <1>8. PICK f \in [Nat -> LinkMap] : Recurs(f, Nat, Top, par, base, step)
    BY <1>7
  <1>9. ASSUME NEW i \in Nat PROVE f[i] = IF i = 0 THEN none ELSE Followed(t, to, f[i - 1])
    <2>1. CASE i = 0
      BY <1>8, <2>1 DEF Recurs
    <2>2. CASE i # 0
      <3>1. f[i] = step[<<i, f[par[i]]>>]
        BY <1>8, <2>2 DEF Recurs
      <3>2. par[i] = i - 1 /\ i - 1 \in Nat /\ f[i - 1] \in LinkMap
        BY <2>2
      <3>3. step[<<i, f[i - 1]>>] = Followed(t, to, f[i - 1])
        BY <3>2
      <3> QED
        BY <2>2, <3>1, <3>2, <3>3
    <2> QED
      BY <2>1, <2>2
  <1> HIDE DEF par, base, step, none
  <1>10. Is(f)
    <2> DEFINE w == [i \in Nat |-> IF i = 0 THEN none ELSE Followed(t, to, f[i - 1])]
    <2>1. \A i \in Nat : w[i] = f[i]
      BY <1>9
    <2>2. f = w
      <3>1. w = [i \in Nat |-> w[i]]
        OBVIOUS
      <3> HIDE DEF w
      <3> QED
        BY <2>1, <3>1
    <2> QED
      BY <2>2
  <1>11. Is(Leads(t, to))
    <2>1. Leads(t, to) = CHOOSE g : Is(g)
      BY DEF Leads, none
    <2> HIDE DEF Is
    <2> QED
      BY <1>10, <2>1
  <1> DEFINE g == Leads(t, to)
  <1> HIDE DEF g
  <1>12. Is(g)
    BY <1>11 DEF g
  <1>13. \A i \in Nat : g[i] = IF i = 0 THEN none ELSE Followed(t, to, g[i - 1])
    BY <1>12
  <1>14. \A i \in Nat : g[i + 1] = Followed(t, to, g[i])
    <2> TAKE i \in Nat
    <2>1. i + 1 \in Nat /\ i + 1 # 0 /\ (i + 1) - 1 = i
      OBVIOUS
    <2> QED
      BY <1>13, <2>1
  <1>15. \A i \in Nat : g[i] \in LinkMap
    <2> DEFINE B == {i \in Nat : g[i] \notin LinkMap}
    <2> SUFFICES ASSUME B # {} PROVE FALSE
      OBVIOUS
    <2>1. PICK m \in B : \A j \in B : m <= j
      <3>1. B \in SUBSET Nat
        OBVIOUS
      <3> HIDE DEF B
      <3> QED
        BY <3>1, LeastOf
    <2>2. m # 0
      BY <1>1, <1>13
    <2>3. m - 1 \in Nat /\ ~ (m <= m - 1)
      BY <2>2
    <2>4. g[m - 1] \in LinkMap
      BY <2>1, <2>3
    <2> QED
      BY <1>13, <2>2, <2>4, FollowedIs
  <1> QED
    BY <1>13, <1>14, <1>15 DEF g, none

\* What follows in a path is looked up from where the first part leads.
LEMMA ReachStep ==
    ASSUME NEW t \in Trees, NEW leads \in LinkMap, NEW d \in Node, NEW ps \in PathParts, ps # <<>>,
           NEW next, next = Toward(t, leads, d, Head(ps), Len(ps) = 1)
    PROVE  Reach(t, leads)[<<d, ps>>] =
               IF next = NoNode THEN NoNode ELSE Reach(t, leads)[<<next, Tail(ps)>>]
  BY ReachIs

\* So it is for a part that is not the last.
LEMMA ReachOn ==
    ASSUME NEW t \in Trees, NEW leads \in LinkMap, NEW d \in Node, NEW ps \in PathParts, ps # <<>>,
           Len(ps) # 1
    PROVE  LET next == Toward(t, leads, d, Head(ps), FALSE)
           IN  /\ next = NoNode => Reach(t, leads)[<<d, ps>>] = NoNode
               /\ next # NoNode => Reach(t, leads)[<<d, ps>>] = Reach(t, leads)[<<next, Tail(ps)>>]
  <1>1. Toward(t, leads, d, Head(ps), Len(ps) = 1) = Toward(t, leads, d, Head(ps), FALSE)
    BY DEF Toward
  <1>2. LET n == Toward(t, leads, d, Head(ps), Len(ps) = 1)
        IN  Reach(t, leads)[<<d, ps>>] =
                IF n = NoNode THEN NoNode ELSE Reach(t, leads)[<<n, Tail(ps)>>]
    BY ReachIs
  <1> QED
    BY ONLY <1>1, <1>2

LEMMA ReachEnd ==
    ASSUME NEW t \in Trees, NEW leads \in LinkMap, NEW d \in Node
    PROVE  Reach(t, leads)[<<d, <<>>>>] = d
  <1>1. PICK e : e = <<>>
    OBVIOUS
  <1>2. e \in PathParts
    BY <1>1, PartsAre
  <1>3. Reach(t, leads)[<<d, e>>] = d
    BY <1>1, <1>2, ReachIs
  <1> QED
    BY <1>1, <1>3

LEMMA ReachDot ==
    ASSUME NEW t \in Trees, NEW leads \in LinkMap, NEW d \in Node, NEW ps \in PathParts,
           ps # <<>>, Head(ps) = "."
    PROVE  Reach(t, leads)[<<d, ps>>] = Reach(t, leads)[<<d, Tail(ps)>>]
  <1>1. Toward(t, leads, d, Head(ps), Len(ps) = 1) = d
    BY DEF Toward
  <1>2. d # NoNode
    BY NodeAssumption
  <1> QED
    BY <1>1, <1>2, ReachStep

\* Parts of sequences.
LEMMA Parted ==
    ASSUME NEW ps \in PathParts, ps # <<>>, NEW qs \in PathParts, qs # <<>>
    PROVE  /\ ps \o qs # <<>> /\ Head(ps \o qs) = Head(ps) /\ Tail(ps \o qs) = Tail(ps) \o qs
           /\ Len(ps \o qs) # 1
           /\ Append(ps, ".") # <<>> /\ Head(Append(ps, ".")) = Head(ps)
           /\ Tail(Append(ps, ".")) = Append(Tail(ps), ".") /\ Len(Append(ps, ".")) # 1
  <1>1. /\ ps \in Seq(Name \cup Dots) /\ qs \in Seq(Name \cup Dots) /\ "." \in Name \cup Dots
    BY PartsAre DEF PathParts
  <1> DEFINE S == Name \cup Dots
  <1>2. ps \in Seq(S) /\ qs \in Seq(S) /\ "." \in S
    BY <1>1
  <1> HIDE DEF S
  <1>3. Len(ps) \in Nat /\ Len(qs) \in Nat /\ Len(ps) > 0 /\ Len(qs) > 0
    BY <1>2
  <1>4. ps \o qs \in Seq(S) /\ Len(ps \o qs) = Len(ps) + Len(qs)
    BY <1>2
  <1>5. Append(ps, ".") \in Seq(S) /\ Len(Append(ps, ".")) = Len(ps) + 1
    BY <1>2
  <1>6. ps \o qs # <<>> /\ Head(ps \o qs) = Head(ps) /\ Len(ps \o qs) # 1
    BY <1>2, <1>3, <1>4
  <1>7. Append(ps, ".") # <<>> /\ Head(Append(ps, ".")) = Head(ps) /\ Len(Append(ps, ".")) # 1
    BY <1>2, <1>3, <1>5
  <1>8. Tail(ps \o qs) = Tail(ps) \o qs
    BY <1>2, <1>3
  <1>9. Tail(Append(ps, ".")) = Append(Tail(ps), ".")
    BY <1>2, <1>3
  <1> QED
    BY <1>6, <1>7, <1>8, <1>9

\* A path is looked up from where its beginning leads, links and all.
LEMMA ReachThrough ==
    ASSUME NEW t \in Trees, NEW leads \in LinkMap, NEW qs \in PathParts, qs # <<>>
    PROVE  \A d \in Node, ps \in PathParts :
               LET m == Reach(t, leads)[<<d, Append(ps, ".")>>]
               IN  Reach(t, leads)[<<d, ps \o qs>>] =
                       IF m = NoNode THEN NoNode ELSE Reach(t, leads)[<<m, qs>>]
  <1> DEFINE r == Reach(t, leads)
             Good(x) == r[<<x[1], x[2] \o qs>>] =
                            IF r[<<x[1], Append(x[2], ".")>>] = NoNode THEN NoNode
                            ELSE r[<<r[<<x[1], Append(x[2], ".")>>], qs>>]
             B == {x \in Node \X PathParts : ~ Good(x)}
  <1>1. B = {}
    <2> SUFFICES ASSUME B # {} PROVE FALSE
      OBVIOUS
    <2>1. PICK x \in B : \A y \in B : Len(x[2]) <= Len(y[2])
      <3>1. B \in SUBSET (Node \X PathParts)
        OBVIOUS
      <3> HIDE DEF B
      <3> QED
        BY <3>1, ShorterEnds
    <2>2. PICK d, ps : d = x[1] /\ ps = x[2]
      OBVIOUS
    <2>3. d \in Node /\ ps \in PathParts /\ ~ Good(x)
      BY <2>2
    <2>4. Append(ps, ".") \in PathParts /\ ps \o qs \in PathParts /\ d # NoNode
      BY <2>3, PartsAre, NodeAssumption
    <2>5. CASE ps = <<>>
      <3>1. ps \o qs = qs
        BY <2>5 DEF PathParts
      <3>2. Append(ps, ".") = <<".">> /\ Head(Append(ps, ".")) = "." /\ Tail(Append(ps, ".")) = <<>>
        BY <2>5
      <3>3. r[<<d, Append(ps, ".")>>] = d
        <4>1. PICK w : w = Append(ps, ".")
          OBVIOUS
        <4>2. w \in PathParts /\ w # <<>> /\ Head(w) = "." /\ Tail(w) = <<>>
          BY <2>3, <3>2, <4>1, PartsAre
        <4> HIDE DEF r
        <4>3. r[<<d, w>>] = r[<<d, Tail(w)>>]
          BY <2>3, <4>2, ReachDot DEF r
        <4>4. r[<<d, <<>>>>] = d
          BY <2>3, ReachEnd DEF r
        <4> QED
          BY <4>1, <4>2, <4>3, <4>4
      <3> QED
        BY <2>2, <2>3, <2>4, <3>1, <3>3
    <2>6. CASE ps # <<>>
      <3>1. PICK next : next = Toward(t, leads, d, Head(ps), FALSE)
        OBVIOUS
      <3>2. Len(ps \o qs) # 1
        BY <2>3, <2>6, Parted
      <3>3. Len(Append(ps, ".")) # 1
        BY <2>3, <2>6, Parted
      <3>4. r[<<d, ps \o qs>>] =
                IF next = NoNode THEN NoNode ELSE r[<<next, Tail(ps) \o qs>>]
        <4>1. PICK w : w = ps \o qs
          OBVIOUS
        <4>2. w \in PathParts /\ w # <<>> /\ Head(w) = Head(ps) /\ Tail(w) = Tail(ps) \o qs
          BY <2>3, <2>4, <2>6, <4>1, Parted
        <4>3. next = Toward(t, leads, d, Head(w), FALSE) /\ Len(w) # 1
          BY <3>1, <3>2, <4>1, <4>2
        <4>4. Reach(t, leads)[<<d, w>>] =
                  IF next = NoNode THEN NoNode ELSE Reach(t, leads)[<<next, Tail(w)>>]
          <5>1. d \in Node /\ w \in PathParts /\ w # <<>>
            BY <2>3, <4>2
          <5> QED
            BY ONLY t \in Trees, leads \in LinkMap, <5>1, <4>3, ReachOn
        <4> HIDE DEF r
        <4>5. r[<<d, w>>] = IF next = NoNode THEN NoNode ELSE r[<<next, Tail(w)>>]
          BY <4>4 DEF r
        <4> QED
          BY <4>1, <4>2, <4>5
      <3>5. r[<<d, Append(ps, ".")>>] =
                IF next = NoNode THEN NoNode ELSE r[<<next, Append(Tail(ps), ".")>>]
        <4>1. PICK w : w = Append(ps, ".")
          OBVIOUS
        <4>2. w \in PathParts /\ w # <<>> /\ Head(w) = Head(ps) /\ Tail(w) = Append(Tail(ps), ".")
          BY <2>3, <2>4, <2>6, <4>1, Parted
        <4>3. next = Toward(t, leads, d, Head(w), FALSE) /\ Len(w) # 1
          BY <3>1, <3>3, <4>1, <4>2
        <4>4. Reach(t, leads)[<<d, w>>] =
                  IF next = NoNode THEN NoNode ELSE Reach(t, leads)[<<next, Tail(w)>>]
          <5>1. d \in Node /\ w \in PathParts /\ w # <<>>
            BY <2>3, <4>2
          <5> QED
            BY ONLY t \in Trees, leads \in LinkMap, <5>1, <4>3, ReachOn
        <4> HIDE DEF r
        <4>5. r[<<d, w>>] = IF next = NoNode THEN NoNode ELSE r[<<next, Tail(w)>>]
          BY <4>4 DEF r
        <4> QED
          BY <4>1, <4>2, <4>5
      <3>6. next # NoNode
        BY <2>2, <2>3, <3>4, <3>5
      <3>7. next \in Node /\ Tail(ps) \in PathParts /\ Len(Tail(ps)) = Len(ps) - 1 /\ Len(ps) \in Nat
        <4>1. Head(ps) \in Name \cup Dots
          BY <2>3, <2>6, PartsAre
        <4>2. next \in Node \cup {NoNode}
          BY <2>3, <3>1, <4>1, TowardIsNode
        <4> QED
          BY <2>3, <2>6, <3>6, <4>2, PartsAre
      <3>8. PICK y : y = <<next, Tail(ps)>>
        OBVIOUS
      <3>9. y \in Node \X PathParts /\ ~ (Len(x[2]) <= Len(y[2]))
        <4>1. y[2] = Tail(ps) /\ y \in Node \X PathParts
          BY <3>7, <3>8
        <4>2. ~ (Len(ps) <= Len(Tail(ps)))
          <5>1. PICK i, j : i = Len(ps) /\ j = Len(Tail(ps))
            OBVIOUS
          <5>2. i \in Nat /\ j = i - 1
            BY ONLY <3>7, <5>1
          <5>3. ~ (i <= j)
            BY ONLY <5>2
          <5> QED
            BY ONLY <5>1, <5>3
        <4> QED
          BY <2>2, <4>1, <4>2
      <3>10. Good(y)
        BY <2>1, <3>9
      <3>11. r[<<next, Tail(ps) \o qs>>] =
                 IF r[<<next, Append(Tail(ps), ".")>>] = NoNode THEN NoNode
                 ELSE r[<<r[<<next, Append(Tail(ps), ".")>>], qs>>]
        BY <3>8, <3>10
      <3> HIDE DEF r
      <3> QED
        BY <2>2, <2>3, <3>4, <3>5, <3>6, <3>11
    <2> QED
      BY <2>5, <2>6
  <1>2. ASSUME NEW d \in Node, NEW ps \in PathParts PROVE Good(<<d, ps>>)
    BY <1>1
  <1> QED
    BY <1>2

\* What holds at the end of a path, and of a path if it holds of what follows
\* its first part, holds of all paths.
LEMMA PathInduction ==
    ASSUME NEW G \in SUBSET (Node \X PathParts),
           \A d \in Node : <<d, <<>>>> \in G,
           \A d \in Node : \A ps \in PathParts :
               ps # <<>> /\ (\A e \in Node : <<e, Tail(ps)>> \in G) => <<d, ps>> \in G
    PROVE  \A d \in Node : \A ps \in PathParts : <<d, ps>> \in G
  <1> DEFINE B == (Node \X PathParts) \ G
  <1> SUFFICES ASSUME B # {} PROVE FALSE
    OBVIOUS
  <1>1. PICK x \in B : \A y \in B : Len(x[2]) <= Len(y[2])
    <2>1. B \in SUBSET (Node \X PathParts)
      OBVIOUS
    <2> HIDE DEF B
    <2> QED
      BY <2>1, ShorterEnds
  <1>2. PICK d, ps : d = x[1] /\ ps = x[2]
    OBVIOUS
  <1>3. d \in Node /\ ps \in PathParts /\ x = <<d, ps>> /\ <<d, ps>> \notin G
    BY <1>2
  <1>4. ps # <<>>
    BY <1>3
  <1>5. ASSUME NEW e \in Node PROVE <<e, Tail(ps)>> \in G
    <2>1. PICK i, j : i = Len(ps) /\ j = Len(Tail(ps))
      OBVIOUS
    <2>2. Tail(ps) \in PathParts /\ i \in Nat /\ j = i - 1
      BY <1>3, <1>4, <2>1, PartsAre
    <2>3. ~ (i <= j)
      BY <2>2
    <2>4. PICK y : y = <<e, Tail(ps)>>
      OBVIOUS
    <2>5. y \in Node \X PathParts /\ Len(y[2]) = j
      BY <2>1, <2>2, <2>4
    <2>6. y \notin B
      BY <1>1, <1>2, <2>1, <2>3, <2>5
    <2> QED
      BY <2>4, <2>5, <2>6
  <1> QED
    BY <1>3, <1>4, <1>5

\* Where links lead to in leads, they do in more.
Agrees(leads, more) == \A n \in Node : leads[n] # NoNode => more[n] = leads[n]

LEMMA TowardAgrees ==
    ASSUME NEW t \in Trees, NEW leads \in LinkMap, NEW more \in LinkMap, Agrees(leads, more),
           NEW d \in Node, NEW k \in Name \cup Dots, NEW isLast,
           Toward(t, leads, d, k, isLast) # NoNode
    PROVE  Toward(t, more, d, k, isLast) = Toward(t, leads, d, k, isLast)
  <1>1. t.child[d][k] \in Node \cup {NoNode} \/ k \in Dots
    BY DEF Trees
  <1> QED
    BY <1>1, NodeAssumption DEF Toward, Agrees, Dots

LEMMA ReachAgrees ==
    ASSUME NEW t \in Trees, NEW leads \in LinkMap, NEW more \in LinkMap, Agrees(leads, more)
    PROVE  \A d \in Node : \A ps \in PathParts :
               Reach(t, leads)[<<d, ps>>] # NoNode =>
                   Reach(t, more)[<<d, ps>>] = Reach(t, leads)[<<d, ps>>]
  <1> DEFINE r == Reach(t, leads)
             s == Reach(t, more)
             G == {x \in Node \X PathParts : r[x] # NoNode => s[x] = r[x]}
  <1>1. ASSUME NEW d \in Node PROVE <<d, <<>>>> \in G
    BY ReachEnd, PartsAre
  <1>2. ASSUME NEW d \in Node, NEW ps \in PathParts, ps # <<>>,
               \A e \in Node : <<e, Tail(ps)>> \in G
        PROVE  <<d, ps>> \in G
    <2> SUFFICES ASSUME r[<<d, ps>>] # NoNode PROVE s[<<d, ps>>] = r[<<d, ps>>]
      OBVIOUS
    <2>1. PICK next : next = Toward(t, leads, d, Head(ps), Len(ps) = 1)
      OBVIOUS
    <2>2. PICK then : then = Toward(t, more, d, Head(ps), Len(ps) = 1)
      OBVIOUS
    <2>3. r[<<d, ps>>] = IF next = NoNode THEN NoNode ELSE r[<<next, Tail(ps)>>]
      <3>1. Reach(t, leads)[<<d, ps>>] =
                IF next = NoNode THEN NoNode ELSE Reach(t, leads)[<<next, Tail(ps)>>]
        <4> HIDE DEF G
        <4> QED
          BY <1>2, <2>1, ReachStep
      <3> QED
        BY <3>1
    <2>4. s[<<d, ps>>] = IF then = NoNode THEN NoNode ELSE s[<<then, Tail(ps)>>]
      <3>1. Reach(t, more)[<<d, ps>>] =
                IF then = NoNode THEN NoNode ELSE Reach(t, more)[<<then, Tail(ps)>>]
        <4> HIDE DEF G
        <4> QED
          BY <1>2, <2>2, ReachStep
      <3> QED
        BY <3>1
    <2>5. Head(ps) \in Name \cup Dots /\ Tail(ps) \in PathParts
      BY <1>2, PartsAre
    <2>6. next # NoNode
      BY <2>3
    <2>7. then = next
      BY <2>1, <2>2, <2>5, <2>6, TowardAgrees
    <2>8. next \in Node
      BY <2>1, <2>5, <2>6, TowardIsNode
    <2>9. r[<<next, Tail(ps)>>] # NoNode => s[<<next, Tail(ps)>>] = r[<<next, Tail(ps)>>]
      BY <1>2, <2>8
    <2> HIDE DEF r, s
    <2> QED
      BY <2>3, <2>4, <2>6, <2>7, <2>9
  <1>3. \A d \in Node : \A ps \in PathParts : <<d, ps>> \in G
    <2>1. G \in SUBSET (Node \X PathParts)
      OBVIOUS
    <2> HIDE DEF G
    <2> QED
      BY <1>1, <1>2, <2>1, PathInduction
  <1> QED
    BY <1>3

LEMMA FollowedAgrees ==
    ASSUME NEW t \in Trees, NEW to \in [Node -> PathStrings],
           NEW leads \in LinkMap, NEW more \in LinkMap, Agrees(leads, more)
    PROVE  Agrees(Followed(t, to, leads), Followed(t, to, more))
  <1>1. ASSUME NEW n \in Links(t)
        PROVE  LET at == <<Start(t.parent[n], to[n]), Append(SplitPath(to[n]), ".")>>
               IN  Reach(t, leads)[at] # NoNode => Reach(t, more)[at] = Reach(t, leads)[at]
    <2>1. PICK d, ps : d = Start(t.parent[n], to[n]) /\ ps = Append(SplitPath(to[n]), ".")
      OBVIOUS
    <2>2. d \in Node /\ ps \in PathParts
      BY <2>1, LinkStart
    <2>3. Reach(t, leads)[<<d, ps>>] # NoNode =>
              Reach(t, more)[<<d, ps>>] = Reach(t, leads)[<<d, ps>>]
      BY <2>2, ReachAgrees
    <2> QED
      BY <2>1, <2>3
  <1> QED
    BY <1>1 DEF Followed, Agrees

LEMMA LeadsAgreeNext ==
    ASSUME NEW t \in Trees, NEW to \in [Node -> PathStrings]
    PROVE  \A i \in Nat : Agrees(Leads(t, to)[i], Leads(t, to)[i + 1])
  <1> DEFINE g == Leads(t, to)
             B == {i \in Nat : ~ Agrees(g[i], g[i + 1])}
  <1>0. /\ \A i \in Nat : g[i] \in LinkMap
        /\ g[0] = [n \in Node |-> NoNode]
        /\ \A i \in Nat : g[i + 1] = Followed(t, to, g[i])
    BY LeadsAre
  <1> HIDE DEF g
  <1> SUFFICES ASSUME B # {} PROVE FALSE
    BY DEF g
  <1>1. PICK m \in B : \A j \in B : m <= j
    <2>1. B \in SUBSET Nat
      OBVIOUS
    <2> HIDE DEF B
    <2> QED
      BY <2>1, LeastOf
  <1>2. m # 0
    BY <1>0 DEF Agrees
  <1>3. m - 1 \in Nat /\ ~ (m <= m - 1) /\ (m - 1) + 1 = m
    BY <1>2
  <1>4. Agrees(g[m - 1], g[m])
    BY <1>1, <1>3
  <1>5. g[m] = Followed(t, to, g[m - 1]) /\ g[m + 1] = Followed(t, to, g[m])
    BY <1>0, <1>3
  <1>6. Agrees(Followed(t, to, g[m - 1]), Followed(t, to, g[m]))
    <2>1. g[m - 1] \in LinkMap /\ g[m] \in LinkMap
      BY <1>0, <1>3
    <2> QED
      BY <1>4, <2>1, FollowedAgrees
  <1> QED
    BY <1>5, <1>6

\* Where a link leads to through few others, it does through more.
LEMMA LeadsAgree ==
    ASSUME NEW t \in Trees, NEW to \in [Node -> PathStrings],
           NEW i \in Nat, NEW j \in Nat, i <= j
    PROVE  Agrees(Leads(t, to)[i], Leads(t, to)[j])
  <1> DEFINE g == Leads(t, to)
             B == {l \in Nat : i <= l /\ ~ Agrees(g[i], g[l])}
  <1>0. \A l \in Nat : Agrees(g[l], g[l + 1])
    BY LeadsAgreeNext
  <1> HIDE DEF g
  <1> SUFFICES ASSUME B # {} PROVE FALSE
    BY DEF g
  <1>1. PICK m \in B : \A l \in B : m <= l
    <2>1. B \in SUBSET Nat
      OBVIOUS
    <2> HIDE DEF B
    <2> QED
      BY <2>1, LeastOf
  <1>2. m # i
    BY DEF Agrees
  <1>3. m - 1 \in Nat /\ i <= m - 1 /\ ~ (m <= m - 1) /\ (m - 1) + 1 = m
    BY <1>2
  <1>4. Agrees(g[i], g[m - 1]) /\ Agrees(g[m - 1], g[m])
    BY <1>0, <1>1, <1>3
  <1> QED
    BY <1>4 DEF Agrees

\* What a path means with few links it means with more.
LEMMA MeansMore ==
    ASSUME NEW t \in Trees, NEW to \in [Node -> PathStrings],
           NEW i \in Nat, NEW j \in Nat, i <= j, NEW d \in Node, NEW ps \in PathParts,
           Reach(t, Leads(t, to)[i])[<<d, ps>>] # NoNode
    PROVE  Reach(t, Leads(t, to)[j])[<<d, ps>>] = Reach(t, Leads(t, to)[i])[<<d, ps>>]
  <1>1. PICK g, h : g = Leads(t, to)[i] /\ h = Leads(t, to)[j]
    OBVIOUS
  <1>2. g \in LinkMap /\ h \in LinkMap
    BY <1>1, LeadsAre
  <1>3. Agrees(g, h)
    BY <1>1, LeadsAgree
  <1>4. \A e \in Node : \A qs \in PathParts :
            Reach(t, g)[<<e, qs>>] # NoNode => Reach(t, h)[<<e, qs>>] = Reach(t, g)[<<e, qs>>]
    BY <1>2, <1>3, ReachAgrees
  <1> QED
    BY <1>1, <1>4

-----------------------------------------------------------------------------
(* What a lookup has found so far, and what is left of its path.             *)

\* Where a path leads through less than k links in a row.
Means(t, to, k, d, ps) == Reach(t, Leads(t, to)[k])[<<d, ps>>]

\* What is in the package t is so in u.
Extends(u, t) ==
    /\ u \in Trees
    /\ \A d \in Attached(t) :
           /\ u.kind[d] = t.kind[d] /\ u.parent[d] = t.parent[d]
           /\ \A k \in Name : t.child[d][k] # NoNode => u.child[d][k] = t.child[d][k]

\* Where ps leads from d, in this package or a later one, path leads from s,
\* through the links E and those it still meets.
Forward(t, to, E, d, ps, s, path) ==
    \A u : Extends(u, t) =>
        \A k, K \in Nat :
            k + Cardinality(E) <= K /\ Means(u, to, k, d, ps) # NoNode =>
                Means(u, to, k, d, ps) = Means(u, to, K, s, path)

\* Where path leads from s, ps leads from d.
Backward(t, to, d, ps, s, path) ==
    \A K \in Nat :
        Means(t, to, K, s, path) # NoNode => Means(t, to, K, d, ps) = Means(t, to, K, s, path)

LEMMA MeansStep ==
    ASSUME NEW t \in Trees, NEW to \in [Node -> PathStrings], NEW k \in Nat,
           NEW d \in Node, NEW ps \in PathParts, ps # <<>>, NEW n \in Node,
           \A g \in LinkMap : Toward(t, g, d, Head(ps), Len(ps) = 1) = n
    PROVE  Means(t, to, k, d, ps) = Means(t, to, k, n, Tail(ps))
  <1>1. PICK g : g = Leads(t, to)[k]
    OBVIOUS
  <1>2. g \in LinkMap
    BY <1>1, LeadsAre
  <1>3. n = Toward(t, g, d, Head(ps), Len(ps) = 1) /\ n # NoNode
    BY <1>2, NodeAssumption
  <1>4. Reach(t, g)[<<d, ps>>] = IF n = NoNode THEN NoNode ELSE Reach(t, g)[<<n, Tail(ps)>>]
    BY <1>2, <1>3, ReachStep
  <1> QED
    BY <1>1, <1>3, <1>4 DEF Means

\* Nothing is where a step leads nowhere.
LEMMA MeansNothing ==
    ASSUME NEW t \in Trees, NEW to \in [Node -> PathStrings], NEW k \in Nat,
           NEW d \in Node, NEW ps \in PathParts, ps # <<>>,
           \A g \in LinkMap : Toward(t, g, d, Head(ps), Len(ps) = 1) = NoNode
    PROVE  Means(t, to, k, d, ps) = NoNode
  <1>1. PICK g : g = Leads(t, to)[k]
    OBVIOUS
  <1>2. g \in LinkMap
    BY <1>1, LeadsAre
  <1>3. NoNode = Toward(t, g, d, Head(ps), Len(ps) = 1)
    BY <1>2
  <1>4. PICK n : n = NoNode
    OBVIOUS
  <1>5. Reach(t, g)[<<d, ps>>] = IF n = NoNode THEN NoNode ELSE Reach(t, g)[<<n, Tail(ps)>>]
    BY <1>2, <1>3, <1>4, ReachStep
  <1> QED
    BY <1>1, <1>4, <1>5 DEF Means

LEMMA MeansEnd ==
    ASSUME NEW t \in Trees, NEW to \in [Node -> PathStrings], NEW k \in Nat, NEW d \in Node
    PROVE  Means(t, to, k, d, <<>>) = d /\ Means(t, to, k, d, <<".">>) = d
  <1>1. PICK g : g = Leads(t, to)[k]
    OBVIOUS
  <1>2. g \in LinkMap
    BY <1>1, LeadsAre
  <1>3. Reach(t, g)[<<d, <<>>>>] = d
    BY <1>2, ReachEnd
  <1>4. PICK w : w = <<".">>
    OBVIOUS
  <1>5. w \in PathParts /\ w # <<>> /\ Head(w) = "." /\ Tail(w) = <<>>
    <2>1. w = Append(<<>>, ".") /\ <<>> \in PathParts
      BY <1>4, PartsAre
    <2>2. w \in PathParts /\ w # <<>>
      BY <2>1, PartsAre
    <2> QED
      BY <1>4, <2>2
  <1>6. Reach(t, g)[<<d, w>>] = Reach(t, g)[<<d, Tail(w)>>]
    BY <1>2, <1>5, ReachDot
  <1> QED
    BY <1>1, <1>3, <1>4, <1>5, <1>6 DEF Means

\* What a link leads to, and what follows.
LEMMA MeansThrough ==
    ASSUME NEW t \in Trees, NEW to \in [Node -> PathStrings], NEW k \in Nat,
           NEW n \in Links(t), NEW qs \in PathParts, qs # <<>>
    PROVE  LET m == Leads(t, to)[k + 1][n]
               d == Start(t.parent[n], to[n])
           IN  /\ m \in Node \cup {NoNode}
               /\ Means(t, to, k, d, SplitPath(to[n]) \o qs) =
                      IF m = NoNode THEN NoNode ELSE Means(t, to, k, m, qs)
               /\ m = Means(t, to, k, d, Append(SplitPath(to[n]), "."))
  <1>1. PICK g, m, d, ps : g = Leads(t, to)[k] /\ m = Leads(t, to)[k + 1][n]
                           /\ d = Start(t.parent[n], to[n]) /\ ps = SplitPath(to[n])
    OBVIOUS
  <1>2. g \in LinkMap /\ d \in Node /\ ps \in PathParts /\ n \in Node
    BY <1>1, LeadsAre, LinkStart
  <1>3. m = Reach(t, g)[<<d, Append(ps, ".")>>]
    <2>1. Leads(t, to)[k + 1] = Followed(t, to, g)
      BY <1>1, LeadsAre
    <2> QED
      BY <1>1, <1>2, <2>1 DEF Followed
  <1>4. Reach(t, g)[<<d, ps \o qs>>] = IF m = NoNode THEN NoNode ELSE Reach(t, g)[<<m, qs>>]
    <2>1. LET e == Reach(t, g)[<<d, Append(ps, ".")>>]
          IN  Reach(t, g)[<<d, ps \o qs>>] = IF e = NoNode THEN NoNode ELSE Reach(t, g)[<<e, qs>>]
      <3>1. \A c \in Node, rs \in PathParts :
                LET e == Reach(t, g)[<<c, Append(rs, ".")>>]
                IN  Reach(t, g)[<<c, rs \o qs>>] =
                        IF e = NoNode THEN NoNode ELSE Reach(t, g)[<<e, qs>>]
        BY <1>2, ReachThrough
      <3> QED
        BY <1>2, <3>1
    <2> QED
      BY ONLY <1>3, <2>1
  <1>5. m \in Node \cup {NoNode}
    <2>1. Leads(t, to)[k + 1] \in LinkMap
      BY LeadsAre
    <2> QED
      BY <1>1, <1>2, <2>1 DEF LinkMap
  <1> QED
    BY <1>1, <1>3, <1>4, <1>5 DEF Means

LEMMA ForwardStarts ==
    ASSUME NEW t \in Trees, NEW to \in [Node -> PathStrings], NEW s \in Node,
           NEW path \in PathParts
    PROVE  Forward(t, to, {}, s, path, s, path) /\ Backward(t, to, s, path, s, path)
  <1>1. ASSUME NEW u \in Trees, NEW k \in Nat, NEW K \in Nat, k <= K,
               Means(u, to, k, s, path) # NoNode
        PROVE  Means(u, to, k, s, path) = Means(u, to, K, s, path)
    BY <1>1, MeansMore DEF Means
  <1>2. Cardinality({}) = 0
    BY FS_EmptySet
  <1> QED
    BY <1>1, <1>2 DEF Forward, Backward, Extends

\* A step to n, whatever links lead to.
LEMMA ForwardSteps ==
    ASSUME NEW t, NEW to \in [Node -> PathStrings], NEW E, NEW s, NEW path,
           NEW d \in Node, NEW ps \in PathParts, ps # <<>>, NEW n \in Node,
           \A u : Extends(u, t) =>
               \A g \in LinkMap : Toward(u, g, d, Head(ps), Len(ps) = 1) = n,
           Forward(t, to, E, d, ps, s, path)
    PROVE  Forward(t, to, E, n, Tail(ps), s, path)
  <1>1. ASSUME NEW u, Extends(u, t), NEW k \in Nat
        PROVE  Means(u, to, k, d, ps) = Means(u, to, k, n, Tail(ps))
    <2>1. u \in Trees /\ \A g \in LinkMap : Toward(u, g, d, Head(ps), Len(ps) = 1) = n
      BY <1>1 DEF Extends
    <2> QED
      BY <2>1, MeansStep
  <1> QED
    BY <1>1 DEF Forward

LEMMA BackwardSteps ==
    ASSUME NEW t \in Trees, NEW to \in [Node -> PathStrings], NEW s, NEW path,
           NEW d \in Node, NEW ps \in PathParts, ps # <<>>, NEW n \in Node,
           \A g \in LinkMap : Toward(t, g, d, Head(ps), Len(ps) = 1) = n,
           Backward(t, to, d, ps, s, path)
    PROVE  Backward(t, to, n, Tail(ps), s, path)
  <1>1. \A k \in Nat : Means(t, to, k, d, ps) = Means(t, to, k, n, Tail(ps))
    BY MeansStep
  <1> QED
    BY <1>1 DEF Backward

\* The link n is the child of d that the first part names, and not the last.
Meets(t, d, ps, n) ==
    /\ ps # <<>> /\ Len(ps) # 1 /\ Head(ps) \in Name
    /\ IsDir(t, d) /\ t.child[d][Head(ps)] = n
    /\ n \in Links(t)

LEMMA MeansLink ==
    ASSUME NEW t \in Trees, NEW to \in [Node -> PathStrings], NEW k \in Nat,
           NEW d \in Node, NEW ps \in PathParts, NEW n, Meets(t, d, ps, n)
    PROVE  LET m == Leads(t, to)[k][n]
           IN  Means(t, to, k, d, ps) = IF m = NoNode THEN NoNode ELSE Means(t, to, k, m, Tail(ps))
  <1>1. PICK g, m : g = Leads(t, to)[k] /\ m = Leads(t, to)[k][n]
    OBVIOUS
  <1>2. g \in LinkMap
    BY <1>1, LeadsAre
  <1>3. Toward(t, g, d, Head(ps), FALSE) = m
    BY <1>1, NodeAssumption, PartsAre DEF Toward, Meets, Dots, Links, Born
  <1>4. ps # <<>> /\ Len(ps) # 1
    BY DEF Meets
  <1>5. LET next == Toward(t, g, d, Head(ps), FALSE)
        IN  /\ next = NoNode => Reach(t, g)[<<d, ps>>] = NoNode
            /\ next # NoNode => Reach(t, g)[<<d, ps>>] = Reach(t, g)[<<next, Tail(ps)>>]
    BY ONLY <1>2, <1>4, t \in Trees, d \in Node, ps \in PathParts, ReachOn
  <1>6. /\ m = NoNode => Reach(t, g)[<<d, ps>>] = NoNode
        /\ m # NoNode => Reach(t, g)[<<d, ps>>] = Reach(t, g)[<<m, Tail(ps)>>]
    BY ONLY <1>3, <1>5
  <1> QED
    BY <1>1, <1>6 DEF Means

\* The target of a link, and then the rest of the path.
LEMMA ForwardFollows ==
    ASSUME NEW t, NEW to \in [Node -> PathStrings], NEW E, IsFiniteSet(E), NEW s, NEW path,
           NEW d \in Attached(t), NEW ps \in PathParts,
           NEW n \in Attached(t), n \notin E, Meets(t, d, ps, n), Tail(ps) # <<>>,
           Forward(t, to, E, d, ps, s, path)
    PROVE  Forward(t, to, E \cup {n}, Start(t.parent[n], to[n]),
                   SplitPath(to[n]) \o Tail(ps), s, path)
  <1> DEFINE f == Start(t.parent[n], to[n])
             qs == SplitPath(to[n]) \o Tail(ps)
  <1>1. Cardinality(E \cup {n}) = Cardinality(E) + 1 /\ Cardinality(E) \in Nat
    BY FS_AddElement, FS_CardinalityType
  <1>2. ASSUME NEW u, Extends(u, t), NEW k \in Nat, NEW K \in Nat,
               k + Cardinality(E \cup {n}) <= K, Means(u, to, k, f, qs) # NoNode
        PROVE  Means(u, to, k, f, qs) = Means(u, to, K, s, path)
    <2>1. u \in Trees /\ Meets(u, d, ps, n) /\ u.parent[n] = t.parent[n]
      <3>1. d \in Node /\ n \in Node /\ n # NoNode
        BY NodeAssumption DEF Attached, Born
      <3> QED
        BY <1>2, <3>1 DEF Extends, Meets, Links, IsDir, Born
    <2>2. PICK m, l : m = Leads(u, to)[k + 1][n] /\ l = k + 1
      OBVIOUS
    <2>3. l \in Nat /\ k <= l /\ l + Cardinality(E) <= K
      BY <1>1, <1>2, <2>2
    <2>4. d \in Node /\ n \in Links(u) /\ Tail(ps) \in PathParts
      BY <2>1, PartsAre DEF Meets, Attached, Born
    <2>5. m \in Node \cup {NoNode}
          /\ Means(u, to, k, f, qs) = IF m = NoNode THEN NoNode ELSE Means(u, to, k, m, Tail(ps))
      <3>1. LET e == Leads(u, to)[k + 1][n]
                g == Start(u.parent[n], to[n])
            IN  /\ e \in Node \cup {NoNode}
                /\ Means(u, to, k, g, SplitPath(to[n]) \o Tail(ps)) =
                       IF e = NoNode THEN NoNode ELSE Means(u, to, k, e, Tail(ps))
                /\ e = Means(u, to, k, g, Append(SplitPath(to[n]), "."))
        BY ONLY to \in [Node -> PathStrings], k \in Nat, Tail(ps) # <<>>, <2>1, <2>4, MeansThrough
      <3> QED
        BY <2>1, <2>2, <3>1
    <2> HIDE DEF f, qs
    <2>6. m \in Node /\ Means(u, to, k, m, Tail(ps)) = Means(u, to, k, f, qs)
      BY <1>2, <2>5
    <2>7. Means(u, to, l, m, Tail(ps)) = Means(u, to, k, m, Tail(ps))
      <3>1. Means(u, to, k, m, Tail(ps)) # NoNode
        BY <1>2, <2>6
      <3>2. PICK rs \in PathParts : rs = Tail(ps)
        BY <2>4
      <3>3. Reach(u, Leads(u, to)[k])[<<m, rs>>] # NoNode
        BY <3>1, <3>2 DEF Means
      <3>4. Reach(u, Leads(u, to)[l])[<<m, rs>>] = Reach(u, Leads(u, to)[k])[<<m, rs>>]
        BY ONLY to \in [Node -> PathStrings], k \in Nat, <2>1, <2>3, <2>6, <3>3, MeansMore
      <3> QED
        BY <3>2, <3>4 DEF Means
    <2>8. Means(u, to, l, d, ps) = Means(u, to, l, m, Tail(ps))
      <3>1. LET e == Leads(u, to)[l][n]
            IN  Means(u, to, l, d, ps) = IF e = NoNode THEN NoNode ELSE Means(u, to, l, e, Tail(ps))
        BY ONLY to \in [Node -> PathStrings], ps \in PathParts, <2>1, <2>3, <2>4, MeansLink
      <3>2. m # NoNode
        BY <2>6, NodeAssumption
      <3> QED
        BY <2>2, <3>1, <3>2
    <2>9. Means(u, to, l, d, ps) # NoNode =>
              Means(u, to, l, d, ps) = Means(u, to, K, s, path)
      BY <1>2, <2>3 DEF Forward
    <2> QED
      BY <1>2, <2>6, <2>7, <2>8, <2>9
  <1> QED
    BY <1>2 DEF Forward

LEMMA BackwardFollows ==
    ASSUME NEW t \in Trees, NEW to \in [Node -> PathStrings], NEW s, NEW path,
           NEW d \in Node, NEW ps \in PathParts, NEW n, Meets(t, d, ps, n), Tail(ps) # <<>>,
           Backward(t, to, d, ps, s, path)
    PROVE  Backward(t, to, Start(t.parent[n], to[n]), SplitPath(to[n]) \o Tail(ps), s, path)
  <1> DEFINE f == Start(t.parent[n], to[n])
             qs == SplitPath(to[n]) \o Tail(ps)
  <1>1. ASSUME NEW K \in Nat, Means(t, to, K, s, path) # NoNode
        PROVE  Means(t, to, K, f, qs) = Means(t, to, K, s, path)
    <2>1. Means(t, to, K, d, ps) = Means(t, to, K, s, path)
      BY <1>1 DEF Backward
    <2>2. PICK m : m = Leads(t, to)[K][n]
      OBVIOUS
    <2>3. m # NoNode /\ Means(t, to, K, m, Tail(ps)) = Means(t, to, K, d, ps)
      <3>1. LET e == Leads(t, to)[K][n]
            IN  Means(t, to, K, d, ps) = IF e = NoNode THEN NoNode ELSE Means(t, to, K, e, Tail(ps))
        BY MeansLink
      <3> QED
        BY <1>1, <2>1, <2>2, <3>1
    <2>4. n \in Links(t) /\ n \in Node /\ Tail(ps) \in PathParts
      BY PartsAre DEF Meets, Links, Born
    <2>5. K # 0
      BY <2>2, <2>3, <2>4, LeadsAre
    <2>6. PICK l \in Nat : K = l + 1
      <3>1. K - 1 \in Nat /\ K = (K - 1) + 1
        BY <2>5
      <3> QED
        BY <3>1
    <2>7. PICK w : w = Append(SplitPath(to[n]), ".")
      OBVIOUS
    <2>8. f \in Node /\ w \in PathParts
      BY <2>4, <2>7, LinkStart
    <2>9. m \in Node \cup {NoNode} /\ m = Means(t, to, l, f, w)
      <3>1. LET e == Leads(t, to)[l + 1][n]
                g == Start(t.parent[n], to[n])
            IN  /\ e \in Node \cup {NoNode}
                /\ Means(t, to, l, g, SplitPath(to[n]) \o Tail(ps)) =
                       IF e = NoNode THEN NoNode ELSE Means(t, to, l, e, Tail(ps))
                /\ e = Means(t, to, l, g, Append(SplitPath(to[n]), "."))
        BY ONLY t \in Trees, to \in [Node -> PathStrings], l \in Nat, Tail(ps) # <<>>, <2>4,
                MeansThrough
      <3> QED
        BY <2>2, <2>6, <2>7, <3>1
    <2>10. LET e == Leads(t, to)[K + 1][n]
               g == Start(t.parent[n], to[n])
           IN  /\ e \in Node \cup {NoNode}
               /\ Means(t, to, K, g, SplitPath(to[n]) \o Tail(ps)) =
                      IF e = NoNode THEN NoNode ELSE Means(t, to, K, e, Tail(ps))
               /\ e = Means(t, to, K, g, Append(SplitPath(to[n]), "."))
      BY ONLY t \in Trees, to \in [Node -> PathStrings], K \in Nat, Tail(ps) # <<>>, <2>4,
              MeansThrough
    <2>11. Means(t, to, K, f, w) = m
      <3>1. l <= K
        BY <2>6
      <3> HIDE DEF f
      <3> QED
        BY <2>3, <2>8, <2>9, <3>1, MeansMore DEF Means
    <2>12. Means(t, to, K, f, qs) = Means(t, to, K, m, Tail(ps))
      BY <2>3, <2>7, <2>10, <2>11
    <2> HIDE DEF f, qs
    <2> QED
      BY <2>1, <2>3, <2>12
  <1> QED
    BY <1>1 DEF Backward

\* A new directory under a free name is in the package from now on.
LEMMA CreateExtends ==
    ASSUME NEW t, TreeInv(t), Unborn(t) # {}, NEW d \in Attached(t), IsDir(t, d),
           NEW k \in Name, t.child[d][k] = NoNode
    PROVE  LET u == Create(t, d, k, "dir")
           IN  /\ TreeInv(u) /\ Extends(u, t) /\ Attached(t) \subseteq Attached(u)
               /\ Fresh(t) \in Attached(u) \ {Root} /\ u.kind[Fresh(t)] = "dir"
               /\ u.child[d][k] = Fresh(t)
               /\ \A m \in Born(t) : u.kind[m] = t.kind[m] /\ u.parent[m] = t.parent[m]
  <1> DEFINE n == Fresh(t)
             u == Create(t, d, k, "dir")
  <1>1. n \in Unborn(t) /\ Placed(t, u, n, d, k) /\ u.kind[n] = "dir"
    BY CreatePlaces
  <1> HIDE DEF n, u
  <1>2. /\ TreeInv(u) /\ u \in Trees /\ n \in Node /\ n \notin Born(t) /\ Born(t) \subseteq Node
        /\ Attached(t) \subseteq Born(t) /\ Rooted(t) /\ Rooted(u) /\ n # Root /\ d \in Node
        /\ Sound(t, Attached(t)) /\ NoNode \notin Node
    BY <1>1, AttachedUp, NodeAssumption DEF Placed, TreeInv, Sound, Rooted, Unborn, Born
  <1>3. Replaced(t, n, d, k) = NoNode
    BY DEF Replaced
  <1>4. /\ Born(u) = Born(t) \cup {n} /\ u.parent[n] = d /\ u.name[n] = k
        /\ \A m \in Born(t) : u.kind[m] = t.kind[m] /\ u.parent[m] = t.parent[m] /\ u.name[m] = t.name[m]
    BY <1>1, <1>2, <1>3 DEF Placed
  <1>5. Attached(u) = Staying(t, n, NoNode) \cup Coming(t, u, n)
    BY <1>1, <1>3, PlacedAttached
  <1>6. \A m \in Born(t) : Avoids(t, m, n)
    <2>1. Born(t) \in SUBSET (Born(t) \ {n})
      BY <1>2
    <2>2. \A m \in Born(t) : t.parent[m] \in Born(t) \cup {NoNode}
      BY <1>2 DEF Rooted
    <2> QED
      BY <2>1, <2>2 DEF Avoids
  <1>7. Attached(t) \subseteq Attached(u)
    BY <1>2, <1>5, <1>6 DEF Staying, Beside
  <1>8. n \in Attached(u)
    BY <1>2, <1>4, <1>7, AttachedUp
  <1>9. ASSUME NEW m \in Attached(u), u.parent[m] # NoNode
        PROVE  u.child[u.parent[m]][u.name[m]] = m
    BY <1>2, <1>9 DEF TreeInv, Complete
  <1>10. u.child[d][k] = n
    BY <1>2, <1>4, <1>8, <1>9
  <1>11. ASSUME NEW e \in Attached(t), NEW j \in Name, t.child[e][j] # NoNode
         PROVE  u.child[e][j] = t.child[e][j]
    <2>1. PICK c : c = t.child[e][j]
      OBVIOUS
    <2>2. c \in Attached(t) /\ t.parent[c] = e /\ t.name[c] = j
      BY <1>2, <1>11, <2>1 DEF Sound
    <2>3. c \in Attached(u) /\ u.parent[c] = e /\ u.name[c] = j /\ e # NoNode
      BY <1>2, <1>4, <1>7, <2>2
    <2> QED
      BY <1>9, <2>1, <2>3
  <1>12. Extends(u, t)
    BY <1>2, <1>4, <1>11 DEF Extends
  <1> QED
    BY <1>1, <1>2, <1>4, <1>7, <1>8, <1>10, <1>12 DEF n, u

LEMMA ExtendsItself ==
    ASSUME NEW t \in Trees
    PROVE  Extends(t, t)
  BY DEF Extends

LEMMA ForwardStays ==
    ASSUME NEW t, NEW u, Extends(u, t), Attached(t) \subseteq Attached(u),
           NEW to, NEW E, NEW d, NEW ps, NEW s, NEW path, Forward(t, to, E, d, ps, s, path)
    PROVE  Forward(u, to, E, d, ps, s, path)
  <1>1. ASSUME NEW v, Extends(v, u) PROVE Extends(v, t)
    <2>1. ASSUME NEW e \in Attached(t), NEW k \in Name, t.child[e][k] # NoNode
          PROVE  v.child[e][k] = t.child[e][k]
      <3>1. u.child[e][k] = t.child[e][k] /\ e \in Attached(u)
        BY <2>1 DEF Extends
      <3> QED
        BY <1>1, <2>1, <3>1 DEF Extends
    <2> QED
      BY <1>1, <2>1 DEF Extends
  <1> QED
    BY <1>1 DEF Forward

\* At the end of a path, that is where it leads, through all the links there are.
LEMMA ForwardEnds ==
    ASSUME NEW t \in Trees, NEW to \in [Node -> PathStrings], NEW E \in SUBSET Links(t),
           NEW d \in Node, NEW s, NEW path, NEW ps, ps = <<>> \/ ps = <<".">>,
           Forward(t, to, E, d, ps, s, path)
    PROVE  d = Means(t, to, Cardinality(Links(t)), s, path)
  <1>1. IsFiniteSet(Links(t)) /\ IsFiniteSet(E)
    <2>1. Links(t) \subseteq Node
      BY DEF Links, Born
    <2> QED
      BY <2>1, NodeAssumption, FS_Subset
  <1>2. /\ Cardinality(Links(t)) \in Nat /\ Cardinality(E) \in Nat
        /\ Cardinality(E) <= Cardinality(Links(t))
    BY <1>1, FS_CardinalityType, FS_Subset
  <1>3. PICK K \in Nat : K = Cardinality(Links(t)) /\ 0 + Cardinality(E) <= K
    BY <1>2
  <1>4. Means(t, to, 0, d, ps) = d
    BY MeansEnd
  <1>5. d # NoNode /\ Extends(t, t)
    BY ExtendsItself, NodeAssumption
  <1> QED
    BY <1>3, <1>4, <1>5 DEF Forward

\* The last of a list of parts.
LEMMA LastPart ==
    /\ \A ps \in PathParts : ps # <<>> => (Len(ps) = 1 <=> Tail(ps) = <<>>)
    /\ \A ps \in PathParts : ps # <<>> /\ Tail(ps) # <<>> => Last(Tail(ps)) = Last(ps)
    /\ \A ps, qs \in PathParts : qs # <<>> => ps \o qs # <<>> /\ Last(ps \o qs) = Last(qs)
    /\ \A ps \in PathParts : Last(Append(ps, ".")) = "."
    /\ \A ps \in PathParts : ps # <<>> =>
           Front(ps) \in PathParts /\ Append(Front(ps), Last(ps)) = ps
  <1> DEFINE S == Name \cup Dots
  <1>1. PathParts = Seq(S)
    BY DEF PathParts
  <1> HIDE DEF S
  <1>2. \A ps \in Seq(S) : ps # <<>> =>
            Tail(ps) \in Seq(S) /\ Len(Tail(ps)) = Len(ps) - 1 /\ Len(ps) \in Nat /\ Len(ps) > 0
    OBVIOUS
  <1>3. \A ps \in Seq(S) : Len(ps) = 0 <=> ps = <<>>
    OBVIOUS
  <1>4. ASSUME NEW ps \in Seq(S), ps # <<>> PROVE Len(ps) = 1 <=> Tail(ps) = <<>>
    <2>1. PICK w : w = Tail(ps)
      OBVIOUS
    <2>2. w \in Seq(S) /\ Len(w) = Len(ps) - 1 /\ Len(ps) \in Nat
      BY <1>2, <1>4, <2>1
    <2>3. Len(w) = 0 <=> w = <<>>
      BY <1>3, <2>2
    <2> QED
      BY <2>1, <2>2, <2>3
  <1>5. ASSUME NEW ps \in Seq(S), ps # <<>>, Tail(ps) # <<>> PROVE Last(Tail(ps)) = Last(ps)
    BY <1>5 DEF Last
  <1>6. ASSUME NEW ps \in Seq(S), NEW qs \in Seq(S), qs # <<>>
        PROVE  ps \o qs # <<>> /\ Last(ps \o qs) = Last(qs)
    BY <1>6 DEF Last
  <1>7. ASSUME NEW ps \in Seq(S) PROVE Last(Append(ps, ".")) = "."
    BY DEF Last
  <1>8. ASSUME NEW ps \in Seq(S), ps # <<>>
        PROVE  Front(ps) \in Seq(S) /\ Append(Front(ps), Last(ps)) = ps
    <2>1. PICK w : w = Front(ps)
      OBVIOUS
    <2>2. w \in Seq(S) /\ Len(w) = Len(ps) - 1 /\ \A i \in 1..Len(w) : w[i] = ps[i]
      <3>1. PICK l \in Nat : l = Len(ps) - 1
        BY <1>2, <1>8
      <3>2. w = SubSeq(ps, 1, l)
        BY <2>1, <3>1 DEF Front
      <3>3. \A i \in 1..l : ps[i] \in S
        BY <1>2, <1>8, <3>1
      <3>4. SubSeq(ps, 1, l) \in Seq(S) /\ Len(SubSeq(ps, 1, l)) = (IF 1 <= l THEN l - 1 + 1 ELSE 0)
            /\ \A i \in 1 .. l - 1 + 1 : SubSeq(ps, 1, l)[i] = ps[1 + i - 1]
        BY <3>3, SubSeqProperties
      <3>5. Len(w) = l /\ \A i \in 1 .. l : w[i] = ps[i]
        BY <3>2, <3>4
      <3> QED
        BY <3>1, <3>2, <3>4, <3>5
    <2>3. Last(ps) \in S /\ Last(ps) = ps[Len(ps)]
      BY <1>8 DEF Last
    <2>4. PICK x : x = Last(ps)
      OBVIOUS
    <2>5. PICK v : v = Append(w, x)
      OBVIOUS
    <2>6. v \in Seq(S) /\ Len(v) = Len(ps)
      BY <1>2, <1>8, <2>2, <2>3, <2>4, <2>5
    <2>7. \A i \in 1..Len(ps) : v[i] = ps[i]
      BY <1>2, <1>8, <2>2, <2>3, <2>4, <2>5
    <2>8. v = ps
      BY <1>8, <2>6, <2>7
    <2> QED
      BY <2>1, <2>2, <2>4, <2>5, <2>8
  <1> QED
    BY <1>1, <1>4, <1>5, <1>6, <1>7, <1>8

\* Where a call began, and the parts of the path it was given.
Began == Start(request.from, request.path)
Asked == SplitPath(request.path)

LookupState ==
    /\ Inv
    /\ link_target \in [Node -> PathStrings] /\ request.path \in PathStrings
    /\ request.op = "mkdirs" => request.path.dir
    /\ Began \in Attached(tree) /\ current \in Attached(tree)
    /\ parts \in PathParts
    /\ expanded \subseteq Links(tree) \cap Attached(tree)
    /\ phase \in {"lookup", "mkdirs"} \cup Returns \cup Raises
    /\ phase = "lookup" /\ request.path.dir /\ parts # <<>> => Last(parts) = "."

\* mkdirs makes what a lookup did not find, and has to end at a directory.
OnTheWay ==
    /\ phase = "lookup" =>
           /\ Forward(tree, link_target, expanded, current, parts, Began, Asked)
           /\ Backward(tree, link_target, current, parts, Began, Asked)
    /\ phase = "mkdirs" =>
           Forward(tree, link_target, expanded, current, Append(parts, "."), Began, Asked)

LookupInv == LookupState /\ OnTheWay /\ LookupIsRight /\ MkdirsIsRight

LEMMA MeaningIs ==
    Meaning(Asked) = Means(tree, link_target, Cardinality(Links(tree)), Began, Asked)
  BY DEF Meaning, Means, Began, Asked

LEMMA StateFacts ==
    ASSUME LookupState
    PROVE  /\ TreeInv(tree) /\ tree \in Trees /\ Rooted(tree) /\ Attached(tree) \subseteq Node
           /\ Attached(tree) \subseteq Born(tree)
           /\ Asked \in PathParts /\ Began \in Node /\ current \in Node
           /\ IsFiniteSet(expanded) /\ Cardinality(Links(tree)) \in Nat
  <1>1. TreeInv(tree) /\ Rooted(tree) /\ tree \in Trees /\ Attached(tree) \subseteq Node
        /\ Attached(tree) \subseteq Born(tree)
    BY DEF LookupState, Inv, TreeInv, Sound, Rooted, Attached, Born
  <1>2. Asked \in PathParts
    BY PartsAre DEF LookupState, Asked, SplitPath, PathStrings, PathParts
  <1>3. Links(tree) \subseteq Node
    BY DEF Links, Born
  <1>4. expanded \subseteq Node
    BY <1>3 DEF LookupState
  <1>5. IsFiniteSet(Links(tree)) /\ IsFiniteSet(expanded)
    BY <1>3, <1>4, NodeAssumption, FS_Subset
  <1>6. Began \in Node /\ current \in Node
    BY <1>1 DEF LookupState
  <1> QED
    BY <1>1, <1>2, <1>5, <1>6, FS_CardinalityType

\* A step that follows no link.
LEMMA PlainStep ==
    ASSUME LookupState, OnTheWay, phase = "lookup", parts # <<>>, NEW n \in Node,
           \A u : Extends(u, tree) =>
               \A g \in LinkMap : Toward(u, g, current, Head(parts), Len(parts) = 1) = n
    PROVE  /\ Forward(tree, link_target, expanded, n, Tail(parts), Began, Asked)
           /\ Backward(tree, link_target, n, Tail(parts), Began, Asked)
           /\ Tail(parts) \in PathParts
           /\ request.path.dir /\ Tail(parts) # <<>> => Last(Tail(parts)) = "."
  <1>1. /\ tree \in Trees /\ link_target \in [Node -> PathStrings] /\ current \in Node
        /\ parts \in PathParts
    BY StateFacts DEF LookupState
  <1>2. /\ Forward(tree, link_target, expanded, current, parts, Began, Asked)
        /\ Backward(tree, link_target, current, parts, Began, Asked)
    BY DEF OnTheWay
  <1>3. PICK to, E, d, ps, s, path : to = link_target /\ E = expanded /\ d = current
                                     /\ ps = parts /\ s = Began /\ path = Asked
    OBVIOUS
  <1>4. PICK t : t = tree
    OBVIOUS
  <1>5. \A u : Extends(u, t) =>
            \A g \in LinkMap : Toward(u, g, d, Head(ps), Len(ps) = 1) = n
    BY <1>3, <1>4
  <1>6. \A g \in LinkMap : Toward(t, g, d, Head(ps), Len(ps) = 1) = n
    BY <1>1, <1>4, <1>5, ExtendsItself
  <1>7. Forward(t, to, E, n, Tail(ps), s, path)
    BY ONLY <1>1, <1>2, <1>3, <1>4, <1>5, parts # <<>>, n \in Node, ForwardSteps
  <1>8. Backward(t, to, n, Tail(ps), s, path)
    BY ONLY <1>1, <1>2, <1>3, <1>4, <1>6, parts # <<>>, n \in Node, BackwardSteps
  <1>9. Tail(parts) \in PathParts
    BY <1>1, PartsAre
  <1>10. request.path.dir /\ Tail(parts) # <<>> => Last(Tail(parts)) = "."
    BY <1>1, LastPart DEF LookupState
  <1> QED
    BY <1>3, <1>4, <1>7, <1>8, <1>9, <1>10

\* Where a step leads nowhere, so does the path.
LEMMA NothingThere ==
    ASSUME LookupState, OnTheWay, phase = "lookup", parts # <<>>,
           \A g \in LinkMap : Toward(tree, g, current, Head(parts), Len(parts) = 1) = NoNode
    PROVE  Means(tree, link_target, Cardinality(Links(tree)), Began, Asked) = NoNode
  <1>1. PICK K \in Nat : K = Cardinality(Links(tree))
    BY StateFacts
  <1>2. Means(tree, link_target, K, current, parts) = NoNode
    <2>1. /\ tree \in Trees /\ link_target \in [Node -> PathStrings] /\ current \in Node
          /\ parts \in PathParts
      BY StateFacts DEF LookupState
    <2> QED
      BY <2>1, MeansNothing
  <1>3. Backward(tree, link_target, current, parts, Began, Asked)
    BY DEF OnTheWay
  <1> QED
    BY <1>1, <1>2, <1>3 DEF Backward

\* What a step of a lookup that goes on has to show.
LEMMA GoesOn ==
    ASSUME LookupState, phase = "lookup", UNCHANGED <<vars, call, phase>>,
           NEW d \in Attached(tree), NEW ps \in PathParts, NEW E,
           E \subseteq Links(tree) \cap Attached(tree),
           current' = d, parts' = ps, expanded' = E,
           request.path.dir /\ ps # <<>> => Last(ps) = ".",
           Forward(tree, link_target, E, d, ps, Began, Asked),
           Backward(tree, link_target, d, ps, Began, Asked)
    PROVE  LookupInv'
  <1>1. /\ tree' = tree /\ rw' = rw /\ link_target' = link_target /\ request' = request
        /\ phase' = "lookup"
    BY DEF vars, call
  <1>2. Began' = Began /\ Asked' = Asked
    BY <1>1 DEF Began, Asked
  <1>3. LookupState'
    BY <1>1, <1>2 DEF LookupState, Inv
  <1>4. OnTheWay'
    BY <1>1, <1>2 DEF OnTheWay
  <1>5. LookupIsRight' /\ MkdirsIsRight'
    BY <1>1 DEF LookupIsRight, MkdirsIsRight
  <1> QED
    BY <1>3, <1>4, <1>5 DEF LookupInv

\* Nor does a lookup that ends without a result change anything.
LEMMA EndsWithNothing ==
    ASSUME LookupState, UNCHANGED <<vars, call, current, expanded>>, parts' \in PathParts,
           phase' \in {"missing"} \cup Raises,
           phase' \in {"missing", "escapes"} =>
               Means(tree, link_target, Cardinality(Links(tree)), Began, Asked) = NoNode
    PROVE  LookupInv'
  <1>1. /\ tree' = tree /\ rw' = rw /\ link_target' = link_target /\ request' = request
        /\ current' = current /\ expanded' = expanded
    BY DEF vars, call
  <1>2. phase' \notin {"lookup", "mkdirs", "found", "made"}
        /\ phase' \in {"lookup", "mkdirs"} \cup Returns \cup Raises
    BY DEF Raises, Returns
  <1>3. Began' = Began /\ Asked' = Asked
    BY <1>1 DEF Began, Asked
  <1>4. LookupState'
    BY <1>1, <1>2, <1>3 DEF LookupState, Inv
  <1>5. OnTheWay'
    BY <1>2 DEF OnTheWay
  <1>6. LookupIsRight'
    <2>1. Meaning(Asked)' = Means(tree, link_target, Cardinality(Links(tree)), Began, Asked)
      BY <1>1, <1>3 DEF Meaning, Means, Began
    <2> QED
      BY <1>2, <2>1 DEF LookupIsRight, Asked
  <1>7. MkdirsIsRight'
    BY <1>2 DEF MkdirsIsRight
  <1> QED
    BY <1>4, <1>5, <1>6, <1>7 DEF LookupInv

LEMMA StayKeeps ==
    ASSUME LookupState, OnTheWay, StayHere
    PROVE  LookupInv'
  <1>1. phase = "lookup" /\ parts # <<>> /\ Head(parts) = "." /\ parts' = Tail(parts)
        /\ current' = current /\ expanded' = expanded /\ UNCHANGED <<vars, call, phase>>
    BY DEF StayHere, NextPart, Rest
  <1>2. \A u : Extends(u, tree) =>
            \A g \in LinkMap : Toward(u, g, current, Head(parts), Len(parts) = 1) = current
    BY <1>1 DEF Toward
  <1>3. current \in Node /\ current \in Attached(tree)
        /\ expanded \subseteq Links(tree) \cap Attached(tree)
    BY StateFacts DEF LookupState
  <1>4. /\ Forward(tree, link_target, expanded, current, Tail(parts), Began, Asked)
        /\ Backward(tree, link_target, current, Tail(parts), Began, Asked)
        /\ Tail(parts) \in PathParts
        /\ request.path.dir /\ Tail(parts) # <<>> => Last(Tail(parts)) = "."
    BY ONLY LookupState, OnTheWay, <1>1, <1>2, <1>3, PlainStep
  <1> QED
    BY ONLY LookupState, <1>1, <1>3, <1>4, GoesOn

LEMMA GoUpKeeps ==
    ASSUME LookupState, OnTheWay, GoUp
    PROVE  LookupInv'
  <1>1. phase = "lookup" /\ parts # <<>> /\ Head(parts) = ".."
        /\ expanded' = expanded /\ UNCHANGED <<vars, call>>
    BY DEF GoUp, NextPart
  <1>2. current \in Node /\ current \in Attached(tree) /\ Rooted(tree)
        /\ expanded \subseteq Links(tree) \cap Attached(tree)
        /\ Attached(tree) \subseteq Node /\ Attached(tree) \subseteq Born(tree)
    BY StateFacts DEF LookupState
  <1>3. CASE current = Root
    <2>1. phase' = "escapes" /\ current' = current /\ parts' = parts
      BY <1>3 DEF GoUp
    <2>2. \A g \in LinkMap : Toward(tree, g, current, Head(parts), Len(parts) = 1) = NoNode
      BY <1>1, <1>3 DEF Toward
    <2>3. Means(tree, link_target, Cardinality(Links(tree)), Began, Asked) = NoNode
      BY ONLY LookupState, OnTheWay, <1>1, <2>2, NothingThere
    <2>4. parts' \in PathParts /\ phase' \in {"missing"} \cup Raises
      BY <2>1 DEF LookupState, Raises
    <2>5. UNCHANGED <<vars, call, current, expanded>>
      BY <1>1, <2>1
    <2> QED
      BY ONLY LookupState, <2>3, <2>4, <2>5, EndsWithNothing
  <1>4. CASE current # Root
    <2>1. current' = tree.parent[current] /\ parts' = Tail(parts) /\ phase' = phase
      BY <1>4 DEF GoUp, Rest
    <2>2. PICK n : n = tree.parent[current]
      OBVIOUS
    <2>3. n \in Attached(tree) /\ n \in Node
      BY <1>2, <1>4, <2>2, AttachedUp
    <2>4. \A u : Extends(u, tree) =>
              \A g \in LinkMap : Toward(u, g, current, Head(parts), Len(parts) = 1) = n
      BY <1>1, <1>2, <1>4, <2>2 DEF Toward, Extends
    <2>5. /\ Forward(tree, link_target, expanded, n, Tail(parts), Began, Asked)
          /\ Backward(tree, link_target, n, Tail(parts), Began, Asked)
          /\ Tail(parts) \in PathParts
          /\ request.path.dir /\ Tail(parts) # <<>> => Last(Tail(parts)) = "."
      BY ONLY LookupState, OnTheWay, <1>1, <2>3, <2>4, PlainStep
    <2>6. current' = n /\ UNCHANGED <<vars, call, phase>>
      BY <1>1, <2>1, <2>2
    <2> QED
      BY ONLY LookupState, <1>1, <1>2, <2>1, <2>3, <2>5, <2>6, GoesOn
  <1> QED
    BY <1>3, <1>4

\* What there is under a name is attached to where it is listed.
LEMMA ChildIs ==
    ASSUME LookupState, NEW k \in Name, Child(k) # NoNode
    PROVE  /\ IsDir(tree, current) /\ Child(k) = tree.child[current][k]
           /\ Child(k) \in Attached(tree) /\ Child(k) \in Node
           /\ tree.parent[Child(k)] = current
           /\ tree.kind[Child(k)] = "symlink" => Child(k) \in Links(tree)
  <1>1. IsDir(tree, current) /\ Child(k) = tree.child[current][k]
    BY DEF Child
  <1>2. Sound(tree, Attached(tree)) /\ current \in Attached(tree) /\ current \in Node
        /\ Attached(tree) \subseteq Node /\ Attached(tree) \subseteq Born(tree)
    BY StateFacts DEF LookupState, TreeInv
  <1>3. Child(k) \in Attached(tree) /\ tree.parent[Child(k)] = current
    BY <1>1, <1>2 DEF Sound
  <1> QED
    BY <1>1, <1>2, <1>3, NodeAssumption DEF Links

LEMMA GoDownKeeps ==
    ASSUME LookupState, OnTheWay, NEW k \in Name, GoDown(k)
    PROVE  LookupInv'
  <1>1. phase = "lookup" /\ parts # <<>> /\ Head(parts) = k /\ parts' = Tail(parts)
        /\ current' = Child(k) /\ expanded' = expanded /\ UNCHANGED <<vars, call, phase>>
        /\ Child(k) # NoNode /\ ~ IsTraversedLink(Child(k))
    BY DEF GoDown, NextPart, Rest
  <1>2. PICK n : n = Child(k)
    OBVIOUS
  <1>3. /\ IsDir(tree, current) /\ n = tree.child[current][k] /\ n \in Attached(tree) /\ n \in Node
        /\ n # NoNode
    BY <1>1, <1>2, ChildIs
  <1>4. current \in Attached(tree) /\ expanded \subseteq Links(tree) \cap Attached(tree)
        /\ parts \in PathParts
    BY DEF LookupState
  <1>5. tree.kind[n] # "symlink" \/ Len(parts) = 1
    BY <1>1, <1>2, <1>4, LastPart DEF IsTraversedLink, Rest
  <1>6. ASSUME NEW u, Extends(u, tree), NEW g \in LinkMap
        PROVE  Toward(u, g, current, Head(parts), Len(parts) = 1) = n
    <2>1. u.kind[current] = "dir" /\ u.child[current][k] = n /\ u.kind[n] = tree.kind[n]
      BY <1>3, <1>4, <1>6 DEF Extends, IsDir
    <2>2. k # "." /\ k # ".."
      BY PartsAre DEF Dots
    <2> QED
      BY <1>1, <1>5, <2>1, <2>2 DEF Toward, IsDir
  <1>7. /\ Forward(tree, link_target, expanded, n, Tail(parts), Began, Asked)
        /\ Backward(tree, link_target, n, Tail(parts), Began, Asked)
        /\ Tail(parts) \in PathParts
        /\ request.path.dir /\ Tail(parts) # <<>> => Last(Tail(parts)) = "."
    <2>1. \A u : Extends(u, tree) =>
              \A g \in LinkMap : Toward(u, g, current, Head(parts), Len(parts) = 1) = n
      BY <1>6
    <2> QED
      BY ONLY LookupState, OnTheWay, <1>1, <1>3, <2>1, PlainStep
  <1>8. current' = n
    BY <1>1, <1>2
  <1> QED
    BY ONLY LookupState, <1>1, <1>3, <1>4, <1>7, <1>8, GoesOn

LEMMA FollowKeeps ==
    ASSUME LookupState, OnTheWay, NEW k \in Name, FollowLink(k)
    PROVE  LookupInv'
  <1> DEFINE c == Child(k)
             f == Start(tree.parent[c], link_target[c])
             w == SplitPath(link_target[c])
  <1>1. /\ phase = "lookup" /\ parts # <<>> /\ Head(parts) = k /\ c # NoNode
        /\ tree.kind[c] = "symlink" /\ Tail(parts) # <<>> /\ c \notin expanded
        /\ current' = f /\ parts' = w \o Tail(parts)
        /\ expanded' = expanded \cup {c} /\ UNCHANGED <<vars, call, phase>>
    BY DEF FollowLink, NextPart, Rest, IsTraversedLink
  <1>2. /\ IsDir(tree, current) /\ c = tree.child[current][k] /\ c \in Attached(tree)
        /\ c \in Node /\ tree.parent[c] = current /\ c \in Links(tree)
    BY <1>1, ChildIs
  <1> HIDE DEF c, f, w
  <1>3. /\ current \in Attached(tree) /\ expanded \subseteq Links(tree) \cap Attached(tree)
        /\ parts \in PathParts /\ link_target \in [Node -> PathStrings] /\ current \in Node
        /\ tree \in Trees /\ IsFiniteSet(expanded) /\ Rooted(tree)
    BY StateFacts DEF LookupState
  <1>4. Tail(parts) \in PathParts /\ w \in PathParts /\ w \o Tail(parts) \in PathParts
    <2>1. w \in PathParts
      BY <1>2, <1>3, LinkStart DEF w
    <2>2. Tail(parts) \in PathParts
      BY <1>1, <1>3, PartsAre
    <2> QED
      BY <2>1, <2>2, PartsAre
  <1>5. f \in Attached(tree)
    <2>1. f = Root \/ f = current
      BY <1>2 DEF f, Start
    <2> QED
      BY <1>3, <2>1, AttachedUp
  <1>6. Meets(tree, current, parts, c)
    <2>1. Len(parts) # 1
      BY <1>1, <1>3, LastPart
    <2> QED
      BY <1>1, <1>2, <2>1 DEF Meets
  <1>7. /\ Forward(tree, link_target, expanded, current, parts, Began, Asked)
        /\ Backward(tree, link_target, current, parts, Began, Asked)
    BY <1>1 DEF OnTheWay
  <1>8. PICK E : E = expanded \cup {c}
    OBVIOUS
  <1>9. Forward(tree, link_target, E, f, w \o Tail(parts), Began, Asked)
    <2>1. PICK t, to, X, d, ps, s, path : t = tree /\ to = link_target /\ X = expanded /\ d = current
                                          /\ ps = parts /\ s = Began /\ path = Asked
      OBVIOUS
    <2>2. Forward(t, to, X \cup {c}, Start(t.parent[c], to[c]), SplitPath(to[c]) \o Tail(ps), s, path)
      BY ONLY <1>1, <1>2, <1>3, <1>6, <1>7, <2>1, ForwardFollows
    <2> QED
      BY <1>8, <2>1, <2>2 DEF f, w
  <1>10. Backward(tree, link_target, f, w \o Tail(parts), Began, Asked)
    <2>1. PICK t, to, d, ps, s, path : t = tree /\ to = link_target /\ d = current
                                       /\ ps = parts /\ s = Began /\ path = Asked
      OBVIOUS
    <2>2. Backward(t, to, Start(t.parent[c], to[c]), SplitPath(to[c]) \o Tail(ps), s, path)
      BY ONLY <1>1, <1>2, <1>3, <1>6, <1>7, <2>1, BackwardFollows
    <2> QED
      BY <2>1, <2>2 DEF f, w
  <1>11. PICK d, ps : d = f /\ ps = w \o Tail(parts)
    OBVIOUS
  <1>12. request.path.dir /\ ps # <<>> => Last(ps) = "."
    <2>1. Last(Tail(parts)) = Last(parts) /\ Last(w \o Tail(parts)) = Last(Tail(parts))
      BY <1>1, <1>3, <1>4, LastPart
    <2> QED
      BY <1>1, <1>11, <2>1 DEF LookupState
  <1>13. /\ d \in Attached(tree) /\ ps \in PathParts /\ E \subseteq Links(tree) \cap Attached(tree)
         /\ current' = d /\ parts' = ps /\ expanded' = E
    BY <1>1, <1>2, <1>3, <1>4, <1>5, <1>8, <1>11
  <1>14. /\ Forward(tree, link_target, E, d, ps, Began, Asked)
         /\ Backward(tree, link_target, d, ps, Began, Asked)
    BY <1>9, <1>10, <1>11
  <1> QED
    BY ONLY LookupState, <1>1, <1>12, <1>13, <1>14, GoesOn

LEMMA RaisesKeep ==
    ASSUME LookupState, (\E k \in Name : MeetLinkAgain(k)) \/ NotADirectory \/ MissingDots
    PROVE  LookupInv'
  <1>1. /\ UNCHANGED <<vars, call, current, parts, expanded>>
        /\ phase' \in {"loop", "not a directory", "assertion"}
    BY DEF MeetLinkAgain, NotADirectory, MissingDots
  <1>2. parts' \in PathParts
    BY <1>1 DEF LookupState
  <1>3. /\ UNCHANGED <<vars, call, current, expanded>> /\ phase' \in {"missing"} \cup Raises
        /\ phase' \notin {"missing", "escapes"}
    BY <1>1 DEF Raises
  <1> QED
    BY ONLY LookupState, <1>2, <1>3, EndsWithNothing

\* The lookup of mkdirs ends.
LEMMA MkdirsBegins ==
    ASSUME LookupState, UNCHANGED <<vars, call, current, expanded>>, phase' = "mkdirs",
           NEW ps \in PathParts, parts' = ps,
           Forward(tree, link_target, expanded, current, Append(ps, "."), Began, Asked)
    PROVE  LookupInv'
  <1>1. /\ tree' = tree /\ rw' = rw /\ link_target' = link_target /\ request' = request
        /\ current' = current /\ expanded' = expanded
    BY DEF vars, call
  <1>2. Began' = Began /\ Asked' = Asked
    BY <1>1 DEF Began, Asked
  <1>3. LookupState'
    BY <1>1, <1>2 DEF LookupState, Inv
  <1>4. OnTheWay'
    BY <1>1, <1>2 DEF OnTheWay
  <1>5. LookupIsRight' /\ MkdirsIsRight'
    BY DEF LookupIsRight, MkdirsIsRight
  <1> QED
    BY <1>3, <1>4, <1>5 DEF LookupInv

LEMMA MissingKeeps ==
    ASSUME LookupState, OnTheWay, NEW k \in Name, Missing(k)
    PROVE  LookupInv'
  <1> DEFINE left == IF request.path.dir THEN Front(parts) ELSE parts
  <1>1. /\ phase = "lookup" /\ parts # <<>> /\ Head(parts) = k /\ Child(k) = NoNode
        /\ parts' = left /\ UNCHANGED <<vars, call, current, expanded>>
        /\ phase' = IF request.op = "mkdirs" THEN "mkdirs"
                    ELSE IF left = <<>> THEN "found" ELSE "missing"
    BY DEF Missing, NextPart, Returned
  <1>2. parts \in PathParts /\ (request.path.dir => Last(parts) = ".") /\ k # "." /\ k # ".."
        /\ (request.op = "mkdirs" => request.path.dir)
    BY <1>1, PartsAre DEF LookupState, Dots
  <1>3. request.path.dir => Front(parts) \in PathParts /\ Append(Front(parts), ".") = parts
    BY <1>1, <1>2, LastPart
  <1>4. request.path.dir => Front(parts) # <<>>
    <2> SUFFICES ASSUME request.path.dir, Front(parts) = <<>> PROVE FALSE
      OBVIOUS
    <2>1. Append(<<>>, ".") = parts
      BY <1>3
    <2>2. Head(parts) = "."
      BY <2>1
    <2> QED
      BY <1>1, <1>2, <2>2
  <1>5. left \in PathParts /\ left # <<>>
    BY <1>1, <1>2, <1>3, <1>4
  <1>6. CASE request.op = "mkdirs"
    <2>1. phase' = "mkdirs" /\ Append(left, ".") = parts
      BY <1>1, <1>2, <1>3, <1>6
    <2>2. PICK ps \in PathParts : ps = left
      BY <1>5
    <2>3. Forward(tree, link_target, expanded, current, Append(ps, "."), Began, Asked)
      BY <1>1, <2>1, <2>2 DEF OnTheWay
    <2> HIDE DEF left
    <2>4. parts' = ps
      BY <1>1, <2>2
    <2> QED
      BY ONLY LookupState, <1>1, <2>1, <2>3, <2>4, MkdirsBegins
  <1>7. CASE request.op # "mkdirs"
    <2> HIDE DEF left
    <2>1. phase' = "missing" /\ parts' \in PathParts
      BY <1>1, <1>5, <1>7
    <2>2. \A g \in LinkMap : Toward(tree, g, current, Head(parts), Len(parts) = 1) = NoNode
      BY <1>1, <1>2 DEF Toward, Child
    <2>3. Means(tree, link_target, Cardinality(Links(tree)), Began, Asked) = NoNode
      BY ONLY LookupState, OnTheWay, <1>1, <2>2, NothingThere
    <2> QED
      BY ONLY LookupState, <1>1, <2>1, <2>3, EndsWithNothing
  <1> QED
    BY <1>6, <1>7

LEMMA FoundKeeps ==
    ASSUME LookupState, OnTheWay, Found
    PROVE  LookupInv'
  <1>1. /\ phase = "lookup" /\ parts = <<>> /\ parts' = <<>>
        /\ UNCHANGED <<vars, call, current, expanded>>
        /\ phase' = IF request.op = "mkdirs" THEN "mkdirs" ELSE "found"
    BY DEF Found, Returned
  <1>2. /\ tree \in Trees /\ link_target \in [Node -> PathStrings] /\ current \in Node
        /\ expanded \in SUBSET Links(tree) /\ <<>> \in PathParts
    BY StateFacts, PartsAre DEF LookupState
  <1>3. Forward(tree, link_target, expanded, current, <<>>, Began, Asked)
    BY <1>1 DEF OnTheWay
  <1>4. CASE request.op = "mkdirs"
    <2>1. Forward(tree, link_target, expanded, current, <<".">>, Began, Asked)
      <3>1. ASSUME NEW u, Extends(u, tree), NEW i \in Nat
            PROVE  Means(u, link_target, i, current, <<".">>) = Means(u, link_target, i, current, <<>>)
        <4>1. u \in Trees
          BY <3>1 DEF Extends
        <4> QED
          BY <1>2, <4>1, MeansEnd
      <3> QED
        BY <1>3, <3>1 DEF Forward
    <2>2. Append(<<>>, ".") = <<".">>
      OBVIOUS
    <2>3. Forward(tree, link_target, expanded, current, Append(<<>>, "."), Began, Asked)
      BY <2>1, <2>2
    <2>4. PICK ps \in PathParts : ps = <<>>
      BY <1>2
    <2>5. parts' = ps /\ phase' = "mkdirs"
          /\ Forward(tree, link_target, expanded, current, Append(ps, "."), Began, Asked)
      BY <1>1, <1>4, <2>3, <2>4
    <2> QED
      BY ONLY LookupState, <1>1, <2>5, MkdirsBegins
  <1>5. CASE request.op # "mkdirs"
    <2>1. /\ tree' = tree /\ rw' = rw /\ link_target' = link_target /\ request' = request
          /\ current' = current /\ expanded' = expanded /\ phase' = "found"
      BY <1>1, <1>5 DEF vars, call
    <2>2. Began' = Began /\ Asked' = Asked
      BY <2>1 DEF Began, Asked
    <2>3. current = Means(tree, link_target, Cardinality(Links(tree)), Began, Asked)
      BY <1>2, <1>3, ForwardEnds
    <2>4. LookupState'
      BY <1>1, <1>2, <2>1, <2>2 DEF LookupState, Inv, Returns
    <2>5. OnTheWay' /\ MkdirsIsRight'
      BY <2>1 DEF OnTheWay, MkdirsIsRight
    <2>6. LookupIsRight'
      <3>1. Meaning(Asked)' = Means(tree, link_target, Cardinality(Links(tree)), Began, Asked)
        BY <2>1, <2>2 DEF Meaning, Means, Began
      <3> QED
        BY <2>1, <2>3, <3>1 DEF LookupIsRight, Asked
    <2> QED
      BY <2>4, <2>5, <2>6 DEF LookupInv
  <1> QED
    BY <1>4, <1>5

LEMMA MakeKeeps ==
    ASSUME LookupState, OnTheWay, NEW k \in Name, MakeMissing(k)
    PROVE  LookupInv'
  <1> DEFINE n == Fresh(tree)
             u == Create(tree, current, k, "dir")
  <1>1. /\ phase = "mkdirs" /\ parts # <<>> /\ Head(parts) = k /\ parts' = Tail(parts)
        /\ current' = n /\ tree' = u /\ rw' = rw /\ UNCHANGED <<call, expanded, phase>>
        /\ current \in Attached(tree) /\ IsDir(tree, current) /\ Unborn(tree) # {}
        /\ tree.child[current][k] = NoNode
    BY DEF MakeMissing, MkDir, MayAddTo, MoreNodes, Rest
  <1>2. /\ TreeInv(u) /\ Extends(u, tree) /\ Attached(tree) \subseteq Attached(u)
        /\ n \in Attached(u) \ {Root} /\ u.kind[n] = "dir" /\ u.child[current][k] = n
        /\ \A m \in Born(tree) : u.kind[m] = tree.kind[m] /\ u.parent[m] = tree.parent[m]
    <2>1. TreeInv(tree)
      BY StateFacts
    <2>2. LET v == Create(tree, current, k, "dir")
          IN  /\ TreeInv(v) /\ Extends(v, tree) /\ Attached(tree) \subseteq Attached(v)
              /\ Fresh(tree) \in Attached(v) \ {Root} /\ v.kind[Fresh(tree)] = "dir"
              /\ v.child[current][k] = Fresh(tree)
              /\ \A m \in Born(tree) : v.kind[m] = tree.kind[m] /\ v.parent[m] = tree.parent[m]
      BY <1>1, <2>1, CreateExtends
    <2> QED
      BY <2>2
  <1> HIDE DEF n, u
  <1>3. /\ link_target \in [Node -> PathStrings] /\ parts \in PathParts
        /\ expanded \subseteq Links(tree) \cap Attached(tree)
        /\ Began \in Attached(tree) /\ current \in Node
        /\ Attached(tree) \subseteq Born(tree) /\ Attached(tree) \subseteq Node
    BY StateFacts DEF LookupState
  <1>4. n \in Node /\ n # NoNode
    BY <1>2, NodeAssumption DEF Attached, Born
  <1>5. Tail(parts) \in PathParts /\ k # "." /\ k # ".." /\ k \notin Dots
    BY <1>1, <1>3, PartsAre DEF Dots
  <1>6. Forward(tree, link_target, expanded, current, Append(parts, "."), Began, Asked)
    BY <1>1 DEF OnTheWay
  <1>7. PICK to, E, d, ps, s, path : to = link_target /\ E = expanded /\ d = current
                                     /\ ps = Append(parts, ".") /\ s = Began /\ path = Asked
    OBVIOUS
  <1>8. Forward(u, to, E, d, ps, s, path)
    BY ONLY <1>2, <1>6, <1>7, ForwardStays
  <1>9. /\ ps \in PathParts /\ ps # <<>> /\ Head(ps) = k /\ Tail(ps) = Append(Tail(parts), ".")
        /\ Len(ps) # 1
    <2>1. PICK qs \in PathParts : qs = <<".">> /\ qs # <<>>
      <3>1. Append(<<>>, ".") = <<".">> /\ <<>> \in PathParts
        BY PartsAre
      <3>2. <<".">> \in PathParts
        BY <3>1, PartsAre
      <3> QED
        BY <3>2
    <2>2. /\ Append(parts, ".") # <<>> /\ Head(Append(parts, ".")) = Head(parts)
          /\ Tail(Append(parts, ".")) = Append(Tail(parts), ".") /\ Len(Append(parts, ".")) # 1
      BY ONLY <1>1, <1>3, <2>1, Parted
    <2>3. Append(parts, ".") \in PathParts
      BY <1>3, PartsAre
    <2> QED
      BY <1>1, <1>7, <2>2, <2>3
  <1>10. ASSUME NEW v, Extends(v, u), NEW g \in LinkMap
         PROVE  Toward(v, g, d, Head(ps), Len(ps) = 1) = n
    <2>1. d \in Attached(u) /\ u.kind[d] = "dir"
      BY <1>1, <1>2, <1>3, <1>7 DEF IsDir
    <2>2. v.kind[d] = "dir" /\ v.child[d][k] = n /\ v.kind[n] = "dir"
      BY <1>2, <1>4, <1>7, <1>10, <2>1 DEF Extends
    <2> QED
      BY <1>5, <1>9, <2>2 DEF Toward, IsDir
  <1>11. Forward(u, to, E, n, Tail(ps), s, path)
    <2>1. \A v : Extends(v, u) =>
              \A g \in LinkMap : Toward(v, g, d, Head(ps), Len(ps) = 1) = n
      BY <1>10
    <2>2. to \in [Node -> PathStrings] /\ d \in Node
      BY <1>3, <1>7
    <2> QED
      BY ONLY <1>4, <1>8, <1>9, <2>1, <2>2, ForwardSteps
  <1>12. Forward(u, link_target, expanded, n, Append(Tail(parts), "."), Began, Asked)
    BY <1>7, <1>9, <1>11
  <1>13. /\ link_target' = link_target /\ request' = request /\ expanded' = expanded
         /\ phase' = "mkdirs"
    BY <1>1 DEF call
  <1>14. Began' = Began /\ Asked' = Asked
    BY <1>13 DEF Began, Asked
  <1>15. expanded \subseteq Links(u) \cap Attached(u)
    <2>1. ASSUME NEW e \in expanded PROVE e \in Links(u) /\ e \in Attached(u)
      <3>1. e \in Links(tree) /\ e \in Attached(tree) /\ e \in Born(tree)
        BY <1>3
      <3>2. u.kind[e] = "symlink" /\ u.parent[e] # NoNode /\ e \in Node
        BY <1>2, <3>1 DEF Links, Born
      <3> QED
        BY <1>2, <3>1, <3>2 DEF Links, Born
    <2> QED
      BY <2>1
  <1>16. LookupState'
    <2>1. Inv'
      BY <1>1, <1>2 DEF LookupState, Inv
    <2>2. Began' \in Attached(tree)' /\ current' \in Attached(tree)'
      BY <1>1, <1>2, <1>3, <1>14
    <2>3. (expanded \subseteq Links(tree) \cap Attached(tree))'
      BY <1>1, <1>13, <1>15
    <2> QED
      BY <1>1, <1>5, <1>13, <2>1, <2>2, <2>3 DEF LookupState
  <1>17. OnTheWay'
    BY <1>1, <1>12, <1>13, <1>14 DEF OnTheWay
  <1>18. LookupIsRight' /\ MkdirsIsRight'
    BY <1>13 DEF LookupIsRight, MkdirsIsRight
  <1> QED
    BY <1>16, <1>17, <1>18 DEF LookupInv

LEMMA AllMadeKeeps ==
    ASSUME LookupState, OnTheWay, AllMade
    PROVE  LookupInv'
  <1>1. /\ phase = "mkdirs" /\ parts = <<>> /\ IsDir(tree, current) /\ phase' = "made"
        /\ tree' = tree /\ rw' = rw /\ link_target' = link_target /\ request' = request
        /\ current' = current /\ expanded' = expanded /\ parts' = parts
    BY DEF AllMade, vars, call
  <1>2. /\ tree \in Trees /\ link_target \in [Node -> PathStrings] /\ current \in Node
        /\ expanded \in SUBSET Links(tree)
    BY StateFacts DEF LookupState
  <1>3. Forward(tree, link_target, expanded, current, <<".">>, Began, Asked)
    <2>1. Append(<<>>, ".") = <<".">>
      OBVIOUS
    <2> QED
      BY <1>1, <2>1 DEF OnTheWay
  <1>4. Began' = Began /\ Asked' = Asked
    BY <1>1 DEF Began, Asked
  <1>5. current = Means(tree, link_target, Cardinality(Links(tree)), Began, Asked)
    BY <1>2, <1>3, ForwardEnds
  <1>6. LookupState'
    BY <1>1, <1>4 DEF LookupState, Inv, Returns
  <1>7. OnTheWay' /\ LookupIsRight'
    BY <1>1 DEF OnTheWay, LookupIsRight
  <1>8. MkdirsIsRight'
    <2>1. Meaning(Asked)' = Means(tree, link_target, Cardinality(Links(tree)), Began, Asked)
      BY <1>1, <1>4 DEF Meaning, Means, Began
    <2>2. IsDir(tree, current)'
      BY <1>1
    <2> QED
      BY <1>1, <1>5, <2>1, <2>2 DEF MkdirsIsRight, Asked
  <1> QED
    BY <1>6, <1>7, <1>8 DEF LookupInv

LEMMA InitLookupInv == InitLookup => LookupInv
  <1> SUFFICES ASSUME InitLookup PROVE LookupInv
    OBVIOUS
  <1>1. TreeInv(tree) /\ link_target \in [Node -> PathStrings] /\ rw = TRUE
    BY LookupAssumption DEF InitLookup
  <1>2. /\ request \in Requests /\ request.from \in Attached(tree) /\ request.path \in PathStrings
        /\ request.op = "mkdirs" => request.path.dir
    BY LookupAssumption DEF InitLookup
  <1>3. /\ current = Began /\ parts = Asked /\ expanded = {} /\ phase = "lookup"
    BY DEF InitLookup, Began, Asked
  <1>4. Began \in Attached(tree)
    <2>1. Root \in Attached(tree)
      BY <1>1, AttachedUp DEF TreeInv, Sound
    <2> QED
      BY <1>2, <2>1 DEF Began, Start
  <1>5. Asked \in PathParts /\ (request.path.dir => Last(Asked) = ".")
    <2>1. request.path.parts \in PathParts
      BY <1>2 DEF PathStrings, PathParts
    <2> QED
      BY <2>1, PartsAre, LastPart DEF Asked, SplitPath
  <1>6. LookupState
    BY <1>1, <1>2, <1>3, <1>4, <1>5 DEF LookupState, Inv
  <1>7. OnTheWay
    <2>1. tree \in Trees /\ Began \in Node
      BY <1>6, StateFacts
    <2>2. /\ Forward(tree, link_target, {}, Began, Asked, Began, Asked)
          /\ Backward(tree, link_target, Began, Asked, Began, Asked)
      BY <1>1, <1>5, <2>1, ForwardStarts
    <2> QED
      BY <1>3, <2>2 DEF OnTheWay
  <1>8. LookupIsRight /\ MkdirsIsRight
    BY <1>3 DEF LookupIsRight, MkdirsIsRight
  <1> QED
    BY <1>6, <1>7, <1>8 DEF LookupInv

LEMMA LookupStepKeeps == LookupInv /\ [NextLookup]_lookupVars => LookupInv'
  <1> SUFFICES ASSUME LookupInv, [NextLookup]_lookupVars PROVE LookupInv'
    OBVIOUS
  <1>1. LookupState /\ OnTheWay
    BY DEF LookupInv
  <1>2. CASE UNCHANGED lookupVars
    <2>1. /\ tree' = tree /\ rw' = rw /\ link_target' = link_target /\ request' = request
          /\ current' = current /\ expanded' = expanded /\ parts' = parts /\ phase' = phase
      BY <1>2 DEF lookupVars, vars
    <2>2. Began' = Began /\ Asked' = Asked
      BY <2>1 DEF Began, Asked
    <2>3. LookupState'
      BY <1>1, <2>1, <2>2 DEF LookupState, Inv
    <2>4. OnTheWay'
      BY <1>1, <2>1, <2>2 DEF OnTheWay
    <2>5. LookupIsRight' /\ MkdirsIsRight'
      BY <2>1 DEF LookupInv, LookupIsRight, MkdirsIsRight, Meaning
    <2> QED
      BY <2>3, <2>4, <2>5 DEF LookupInv
  <1>3. CASE StayHere
    BY <1>1, <1>3, StayKeeps
  <1>4. CASE GoUp
    BY <1>1, <1>4, GoUpKeeps
  <1>5. CASE Found
    BY <1>1, <1>5, FoundKeeps
  <1>6. ASSUME NEW k \in Name, GoDown(k) PROVE LookupInv'
    BY <1>1, <1>6, GoDownKeeps
  <1>7. ASSUME NEW k \in Name, FollowLink(k) PROVE LookupInv'
    BY <1>1, <1>7, FollowKeeps
  <1>8. ASSUME NEW k \in Name, Missing(k) PROVE LookupInv'
    BY <1>1, <1>8, MissingKeeps
  <1>9. ASSUME NEW k \in Name, MakeMissing(k) PROVE LookupInv'
    BY <1>1, <1>9, MakeKeeps
  <1>10. CASE (\E k \in Name : MeetLinkAgain(k)) \/ NotADirectory \/ MissingDots
    BY <1>1, <1>10, RaisesKeep
  <1>11. CASE AllMade
    BY <1>1, <1>11, AllMadeKeeps
  <1> QED
    BY <1>2, <1>3, <1>4, <1>5, <1>6, <1>7, <1>8, <1>9, <1>10, <1>11 DEF NextLookup

\* attempt_lookup returns what the path means link by link, and nothing only if
\* it means nothing, however the links of the package lead through each other.
THEOREM LookupsAreRight == LookupSpec => []LookupIsRight
  <1>1. LookupInv => LookupIsRight
    BY DEF LookupInv
  <1> QED
    BY <1>1, InitLookupInv, LookupStepKeeps, PTL DEF LookupSpec

\* mkdirs ends at the directory its path means from then on, though it looked up
\* the path before it made anything.
THEOREM MkdirsAreRight == LookupSpec => []MkdirsIsRight
  <1>1. LookupInv => MkdirsIsRight
    BY DEF LookupInv
  <1> QED
    BY <1>1, InitLookupInv, LookupStepKeeps, PTL DEF LookupSpec

\* A lookup is at a node of the package at all times.
THEOREM LookupTypes == LookupSpec => []LookupTypeOK
  <1>1. ASSUME LookupInv PROVE LookupTypeOK
    <2>1. LookupState
      BY <1>1 DEF LookupInv
    <2>2. tree \in Trees
      BY <2>1, StateFacts
    <2> QED
      BY <2>1, <2>2 DEF LookupState, LookupTypeOK, Links, PathParts
  <1> QED
    BY <1>1, InitLookupInv, LookupStepKeeps, PTL DEF LookupSpec
=============================================================================
