---------------------------- MODULE InstallProofs ----------------------------
(***************************************************************************)
(* Theorems about InstallRules for any source tree, packages, search        *)
(* directories and manifest.  First lemmas about paths, their parents and   *)
(* what the patterns yield (of SourceTree); then the discard cache (what a  *)
(* query leaves in it) and type correctness; last the reservations of       *)
(* SourcePathMatcher: the first match wins, discards are respected, and     *)
(* only what is reserved for a package gets into it.                        *)
(***************************************************************************)
EXTENDS InstallRules, SequenceTheorems, WellFoundedInduction, TLAPS

-----------------------------------------------------------------------------
(* Paths.                                                                   *)

\* Among paths no longer than p there is a longest one.
LEMMA LongestExists ==
    ASSUME NEW p \in Seq(STRING), NEW D \in SUBSET Seq(STRING), D # {},
           \A q \in D : Len(q) <= Len(p)
    PROVE  \E q \in D : IsLongest(q, D)
<1> DEFINE R == OpToRel(<, Nat)
           T == {n \in Nat : \E q \in D : n = Len(p) - Len(q)}
<1>1. IsWellFoundedOn(R, Nat)
  BY NatLessThanWellFounded
<1>2. T \subseteq Nat /\ T # {}
  <2>1. PICK q \in D : TRUE
    OBVIOUS
  <2>2. Len(p) - Len(q) \in T
    BY <2>1, LenProperties
  <2> QED  BY <2>2
<1>3. PICK n \in T : \A m \in T : ~ (<<m, n>> \in R)
  <2> HIDE DEF R, T
  <2> QED  BY <1>1, <1>2, WFMin
<1>4. \A m \in T : ~ (m < n)
  BY <1>2, <1>3 DEF OpToRel
<1>5. PICK q \in D : n = Len(p) - Len(q)
  BY <1>3
<1>6. \A o \in D : Len(p) - Len(o) \in T /\ Len(o) \in Nat
  OBVIOUS
<1>7. ASSUME NEW o \in D  PROVE Len(o) <= Len(q)
  <2>1. ~ (Len(p) - Len(o) < Len(p) - Len(q))
    BY <1>4, <1>5, <1>6
  <2>2. Len(p) \in Nat /\ Len(o) \in Nat /\ Len(q) \in Nat
    BY LenProperties
  <2> QED  BY <2>1, <2>2
<1> QED  BY <1>5, <1>7 DEF IsLongest

\* A path below the root of a view is the first of its own chain of parents.
LEMMA SelfInChain ==
    ASSUME NEW root \in Seq(STRING), NEW p \in FsPath, IsPrefix(root, p)
    PROVE  p \in Chain(root, p)
BY TreeAssumption DEF Chain, IsPrefix

\* A parent is shorter than the path: only the path itself has its length.
LEMMA ChainLength ==
    ASSUME NEW root, NEW p \in FsPath, NEW q \in Chain(root, p)
    PROVE  /\ q \in FsPath /\ Len(q) <= Len(p)
           /\ Len(q) = Len(p) => q = p
<1>1. p \in Seq(STRING) /\ q \in Seq(STRING)
  BY TreeAssumption DEF Chain
<1>2. Len(q) <= Len(p) /\ SubSeq(q, 1, Len(q)) = SubSeq(p, 1, Len(q)) /\ q \in FsPath
  BY DEF Chain, IsPrefix
<1>3. SubSeq(q, 1, Len(q)) = q /\ SubSeq(p, 1, Len(p)) = p
  BY <1>1, SubSeqFull
<1> QED  BY <1>2, <1>3

\* Two parents of a path are comparable: the shorter is a parent of the longer.
LEMMA PrefixesOrdered ==
    ASSUME NEW p \in Seq(STRING), NEW q \in Seq(STRING), NEW o \in Seq(STRING),
           IsPrefix(q, p), IsPrefix(o, p), Len(o) <= Len(q)
    PROVE  IsPrefix(o, q)
<1>1. /\ Len(p) \in Nat /\ Len(q) \in Nat /\ Len(o) \in Nat
      /\ Len(q) <= Len(p)
  BY LenProperties DEF IsPrefix
<1>2. q = SubSeq(p, 1, Len(q)) /\ o = SubSeq(p, 1, Len(o))
  BY SubSeqFull DEF IsPrefix
<1>3. \A i \in 1..Len(o) : o[i] = q[i]
  BY <1>1, <1>2
<1>4. SubSeq(o, 1, Len(o)) = SubSeq(q, 1, Len(o))
  BY <1>1, <1>3
<1> QED  BY <1>4 DEF IsPrefix

\* A parent of a parent is a parent.
LEMMA PrefixTransitive ==
    ASSUME NEW p \in Seq(STRING), NEW q \in Seq(STRING), NEW o \in Seq(STRING),
           IsPrefix(o, q), IsPrefix(q, p)
    PROVE  IsPrefix(o, p)
<1>1. /\ Len(p) \in Nat /\ Len(q) \in Nat /\ Len(o) \in Nat
      /\ Len(q) <= Len(p) /\ Len(o) <= Len(q)
  BY LenProperties DEF IsPrefix
<1>2. q = SubSeq(p, 1, Len(q)) /\ o = SubSeq(q, 1, Len(o))
  BY SubSeqFull DEF IsPrefix
<1>3. \A i \in 1..Len(o) : o[i] = p[i]
  BY <1>1, <1>2
<1>4. SubSeq(o, 1, Len(o)) = SubSeq(p, 1, Len(o))
  BY <1>1, <1>3
<1> QED  BY <1>1, <1>4 DEF IsPrefix

\* A prefix of full length is the path itself.
LEMMA SamePrefix ==
    ASSUME NEW p \in Seq(STRING), NEW q \in Seq(STRING), IsPrefix(p, q), Len(p) = Len(q)
    PROVE  p = q
BY SubSeqFull DEF IsPrefix

\* What iterdir yields of a directory lies below it, one level down, and in the same view.
LEMMA ChildPrefix ==
    ASSUME NEW root \in Seq(STRING), NEW d \in Seq(STRING), NEW c \in Children(d), IsPrefix(root, d)
    PROVE  /\ c \in FsPath /\ c \in Seq(STRING)
           /\ IsPrefix(d, c) /\ IsPrefix(root, c) /\ Len(c) = Len(d) + 1
<1>1. c \in FsPath /\ c \in Seq(STRING) /\ c # <<>> /\ SubSeq(c, 1, Len(c) - 1) = d
  BY TreeAssumption DEF Children, Parent, Front
<1>2. Len(c) \in Nat \ {0} /\ Len(d) = Len(c) - 1
  BY <1>1, EmptySeq, LenProperties, SubSeqProperties
<1>3. IsPrefix(d, c)
  <2>1. SubSeq(c, 1, Len(d)) = d /\ SubSeq(d, 1, Len(d)) = d
    BY <1>1, <1>2, SubSeqFull
  <2> QED  BY <1>2, <2>1 DEF IsPrefix
<1>4. IsPrefix(root, c)
  BY <1>1, <1>3, PrefixTransitive
<1> QED  BY <1>1, <1>2, <1>3, <1>4

\* No child of a directory lies below another child of it.
LEMMA SiblingsApart ==
    ASSUME NEW d \in Seq(STRING), NEW a \in Children(d), NEW b \in Children(d), IsPrefix(a, b)
    PROVE  a = b
<1>1. IsPrefix(d, d)
  BY LenProperties DEF IsPrefix
<1>2. a \in Seq(STRING) /\ b \in Seq(STRING) /\ Len(a) = Len(b)
  BY <1>1, ChildPrefix
<1> QED  BY <1>2, SamePrefix

\* The walk from a path towards the root passes each length once, so it stops at
\* one path.
LEMMA LongestIsUnique ==
    ASSUME NEW root, NEW p \in FsPath, NEW D \in SUBSET Chain(root, p), D # {}
    PROVE  /\ \E q \in D : IsLongest(q, D)
           /\ \A q, o \in D : IsLongest(q, D) /\ IsLongest(o, D) => q = o
<1>1. /\ p \in Seq(STRING) /\ D \subseteq Seq(STRING)
      /\ \A q \in D : Len(q) <= Len(p) /\ IsPrefix(q, p)
  BY TreeAssumption DEF Chain, IsPrefix
<1>2. \E q \in D : IsLongest(q, D)
  BY <1>1, LongestExists
<1>3. ASSUME NEW q \in D, NEW o \in D, IsLongest(q, D), IsLongest(o, D)
      PROVE  q = o
  <2>1. Len(q) = Len(o)
    BY <1>1, <1>3, LenProperties DEF IsLongest
  <2>2. q = SubSeq(p, 1, Len(q)) /\ o = SubSeq(p, 1, Len(o))
    BY <1>1, SubSeqFull DEF IsPrefix
  <2> QED  BY <2>1, <2>2
<1> QED  BY <1>2, <1>3

\* A pattern only yields paths that exist.
LEMMA YieldsType ==
    ASSUME NEW pat \in Patterns, NEW root
    PROVE  Yields(pat, root) \subseteq FsPath
<1>1. Unfiltered(pat, root) \subseteq FsPath
  BY DEF Unfiltered, Patterns, Lookup, Children, Beneath
<1> QED  BY <1>1 DEF Yields, Finditer

\* Whatever the type of a pattern, what it yields lies in the search directory it
\* is matched in.
LEMMA YieldsBelowRoot ==
    ASSUME NEW pat \in Patterns, NEW root \in Seq(STRING), NEW p \in Yields(pat, root)
    PROVE  IsPrefix(root, p)
<1>1. pat.at \in Seq(STRING)
  BY DEF Patterns
<1>2. root \o pat.at \in Seq(STRING) /\ root \o <<>> = root /\ root \o <<>> \in Seq(STRING)
  BY <1>1, ConcatProperties, ConcatEmptySeq
<1>3. ASSUME NEW at \in Seq(STRING) PROVE IsPrefix(root, root \o at)
  <2>1. Len(root) \in Nat /\ Len(at) \in Nat /\ Len(root \o at) = Len(root) + Len(at)
    BY ConcatProperties, LenProperties
  <2>2. \A i \in 1..Len(root) : (root \o at)[i] = root[i]
    BY <2>1, ConcatProperties
  <2>3. SubSeq(root, 1, Len(root)) = SubSeq(root \o at, 1, Len(root))
    BY <2>1, <2>2
  <2> QED  BY <2>1, <2>3 DEF IsPrefix
<1>4. p \in Unfiltered(pat, root)
  BY DEF Yields, Finditer
<1>5. CASE p = root \o pat.at
  BY <1>1, <1>3, <1>5
<1>6. CASE p \in Children(root \o pat.at)
  BY <1>1, <1>2, <1>3, <1>6, ChildPrefix
<1>7. CASE p \in Lookup(root, <<>>) \cup Beneath(root)
  <2>1. p = root \/ IsPrefix(root, p)
    BY <1>2, <1>7 DEF Lookup, Beneath, IsStrictPrefix
  <2> QED  BY <2>1 DEF IsPrefix
<1>8. p = root \o pat.at \/ p \in Children(root \o pat.at) \/ p \in Lookup(root, <<>>) \cup Beneath(root)
  BY <1>4 DEF Unfiltered, Patterns, Lookup
<1> QED  BY <1>5, <1>6, <1>7, <1>8

-----------------------------------------------------------------------------
(* The discard cache and types.                                             *)

\* The type of the discard cache.
DiscardedType == discarded \in [FsPath -> DiscardStates]

\* Where the walk of _check_plugin_provided_exclude_state_for stops is well defined.
LEMMA StopType ==
    ASSUME NEW root, NEW p \in FsPath, Decisive(root, p) # {}
    PROVE  LET D == Decisive(root, p)
               stop == CHOOSE q \in D : IsLongest(q, D)
           IN  /\ stop \in D /\ IsLongest(stop, D)
               /\ \A q \in D : IsLongest(q, D) => q = stop
<1>1. Decisive(root, p) \subseteq Chain(root, p)
  BY DEF Decisive
<1> HIDE DEF Decisive
<1> QED  BY <1>1, LongestIsUnique

\* The walk always ends with a verdict.
LEMMA ExcludeStateType ==
    ASSUME NEW root, NEW p \in FsPath, DiscardedType
    PROVE  ExcludeState(root, p) \in {"not", "plugin", "manifest"}
<1>1. CASE Decisive(root, p) = {}
  BY <1>1 DEF ExcludeState
<1>2. CASE Decisive(root, p) # {}
  <2> DEFINE D == Decisive(root, p)
             stop == CHOOSE q \in D : IsLongest(q, D)
  <2>1. stop \in D
    BY <1>2, StopType
  <2>2. stop \in FsPath
    BY <2>1 DEF Decisive, Chain
  <2>3. ExcludeState(root, p) = IF discarded[stop] # "unchecked" THEN discarded[stop] ELSE "plugin"
    BY <1>2 DEF ExcludeState
  <2> HIDE DEF stop
  <2> QED  BY <2>2, <2>3 DEF DiscardedType, DiscardStates
<1> QED  BY <1>1, <1>2

\* A verdict in the cache is the verdict of the path.
LEMMA KnownStateStands ==
    ASSUME NEW root, NEW p \in FsPath, p \in Chain(root, p), discarded[p] # "unchecked"
    PROVE  ExcludeState(root, p) = discarded[p]
<1> DEFINE D == Decisive(root, p)
           stop == CHOOSE q \in D : IsLongest(q, D)
<1>1. p \in D
  BY DEF Decisive
<1>2. IsLongest(p, D)
  BY <1>1, ChainLength DEF IsLongest, Decisive
<1>3. p = stop
  BY <1>1, <1>2, StopType
<1>4. ExcludeState(root, p) = IF discarded[stop] # "unchecked" THEN discarded[stop] ELSE "plugin"
  BY <1>1 DEF ExcludeState
<1> HIDE DEF stop
<1> QED  BY <1>3, <1>4

\* A path without a verdict is among those its own walk caches.
LEMMA SelfIsMissed ==
    ASSUME NEW root, NEW p \in FsPath, p \in Chain(root, p), discarded[p] = "unchecked"
    PROVE  p \in CacheMisses(root, p)
BY ChainLength DEF CacheMisses, Decisive

\* The walk may cache its verdict for every path it passed: each of them would have
\* got the same one if it had been asked for itself.
LEMMA MissesShareTheVerdict ==
    ASSUME NEW root \in Seq(STRING), NEW p \in FsPath, NEW q \in CacheMisses(root, p)
    PROVE  ExcludeState(root, q) = ExcludeState(root, p)
<1>1. /\ q \in FsPath /\ q \in Chain(root, p)
      /\ \A o \in Decisive(root, p) : Len(o) <= Len(q)
  BY DEF CacheMisses, Chain
<1>2. p \in Seq(STRING) /\ q \in Seq(STRING) /\ IsPrefix(q, p)
  BY <1>1, TreeAssumption DEF Chain
<1>3. Decisive(root, p) \subseteq Decisive(root, q)
  <2> SUFFICES ASSUME NEW o \in Decisive(root, p)  PROVE o \in Decisive(root, q)
    OBVIOUS
  <2>1. o \in FsPath /\ o \in Seq(STRING) /\ IsPrefix(root, o) /\ IsPrefix(o, p) /\ Len(o) <= Len(q)
    BY <1>1, TreeAssumption DEF Decisive, Chain
  <2>2. IsPrefix(o, q)
    BY <1>2, <2>1, PrefixesOrdered
  <2> QED  BY <2>1, <2>2 DEF Decisive, Chain
<1>4. Decisive(root, q) \subseteq Decisive(root, p)
  <2> SUFFICES ASSUME NEW o \in Decisive(root, q)  PROVE o \in Decisive(root, p)
    OBVIOUS
  <2>1. o \in FsPath /\ o \in Seq(STRING) /\ IsPrefix(root, o) /\ IsPrefix(o, q)
    BY TreeAssumption DEF Decisive, Chain
  <2>2. IsPrefix(o, p)
    BY <1>2, <2>1, PrefixTransitive
  <2> QED  BY <2>1, <2>2 DEF Decisive, Chain
<1>5. Decisive(root, q) = Decisive(root, p)
  BY <1>3, <1>4
<1> DEFINE Verdict(D) ==
             LET stop == CHOOSE o \in D : IsLongest(o, D)
             IN  IF D = {} THEN "not"
                 ELSE IF discarded[stop] # "unchecked" THEN discarded[stop]
                 ELSE "plugin"
<1>6. /\ ExcludeState(root, q) = Verdict(Decisive(root, q))
      /\ ExcludeState(root, p) = Verdict(Decisive(root, p))
  BY DEF ExcludeState
<1> HIDE DEF Verdict
<1> QED  BY <1>5, <1>6

\* What a query leaves in the cache: known states stand, the paths asked for have
\* their verdict, and whatever changed is a path some walk passed.
LEMMA CachedForFacts ==
    ASSUME NEW root \in Seq(STRING), NEW S \in SUBSET FsPath, DiscardedType
    PROVE  /\ CachedFor(root, S) \in [FsPath -> DiscardStates]
           /\ \A q \in FsPath : discarded[q] # "unchecked" => CachedFor(root, S)[q] = discarded[q]
           /\ \A p \in S : IsPrefix(root, p) => CachedFor(root, S)[p] = ExcludeState(root, p)
           /\ \A q \in FsPath : CachedFor(root, S)[q] # discarded[q] =>
                  \E p \in S : /\ q \in CacheMisses(root, p)
                               /\ CachedFor(root, S)[q] = ExcludeState(root, p)
<1>1. CachedFor(root, S) \in [FsPath -> DiscardStates]
  BY ExcludeStateType DEF CachedFor, DiscardedType, DiscardStates
<1>2. ASSUME NEW q \in FsPath, discarded[q] # "unchecked"
      PROVE  CachedFor(root, S)[q] = discarded[q]
  BY <1>2 DEF CachedFor, CacheMisses
<1>3. ASSUME NEW p \in S, IsPrefix(root, p)
      PROVE  CachedFor(root, S)[p] = ExcludeState(root, p)
  <2>1. p \in FsPath /\ p \in Chain(root, p)
    BY <1>3, SelfInChain
  <2>2. CASE discarded[p] # "unchecked"
    BY <1>2, <2>1, <2>2, KnownStateStands
  <2>3. CASE discarded[p] = "unchecked"
    <3>1. p \in CacheMisses(root, p)
      BY <2>1, <2>3, SelfIsMissed
    <3> QED  BY <2>1, <3>1 DEF CachedFor
  <2> QED  BY <2>2, <2>3
<1>4. ASSUME NEW q \in FsPath, CachedFor(root, S)[q] # discarded[q]
      PROVE  \E p \in S : /\ q \in CacheMisses(root, p)
                          /\ CachedFor(root, S)[q] = ExcludeState(root, p)
  <2>1. /\ \E p \in S : q \in CacheMisses(root, p)
        /\ CachedFor(root, S)[q] = ExcludeState(root, q)
    BY <1>4 DEF CachedFor
  <2> QED  BY <2>1, MissesShareTheVerdict
<1> QED  BY <1>1, <1>2, <1>3, <1>4

\* What the phases guarantee about the indices: the pattern and the search
\* directory that are looked at exist, and somebody wants the match.
Scope ==
    /\ pc \in {"search", "match", "install", "place", "recurse"} =>
           /\ src \in 1..Len(rule.sources)
           /\ rule.type \in {"install", "discard"}
    /\ pc \in {"install", "place", "recurse"} => rule.type = "install"
    /\ pc = "match" =>
           /\ sd \in 1..Len(dirs)
           /\ rule.into # {} => Applicable # {}

\* The inductive form of TypeOK.
TypeInv == TypeOK /\ Scope

\* All rules a run can perform.
Rules == RuleSpace \cup {StagingRule(pkg) : pkg \in Package} \cup {NoRule}

\* Each rule has patterns, and an install rule has packages.
LEMMA RuleFacts ==
    ASSUME NEW r \in Rules
    PROVE  /\ r.into \in SUBSET Package
           /\ r.sources \in Seq(Patterns)
           /\ r.type \in {"install", "discard"} => Len(r.sources) \in Nat \ {0}
           /\ r.type = "install" => r.into # {}
<1>1. CASE r \in RuleSpace
  <2>1. /\ r.sources \in Seq(Patterns) /\ r.sources # <<>> /\ r.into \in SUBSET Package
        /\ r.type = "install" => r.into # {}
    BY <1>1, RuleAssumption
  <2> QED  BY <2>1, EmptySeq
<1>2. CASE \E pkg \in Package : r = StagingRule(pkg)
  <2>1. Anything \in Patterns
    BY DEF Anything, Patterns
  <2>2. PICK pkg \in Package : r = StagingRule(pkg)
    BY <1>2
  <2>3. r.sources = <<Anything>> /\ r.into = {pkg}
    BY <2>2 DEF StagingRule, InstallKeep, Generic
  <2> QED  BY <2>1, <2>3
<1>3. CASE r = NoRule
  BY <1>3 DEF NoRule
<1> QED  BY <1>1, <1>2, <1>3 DEF Rules

\* The rule for a staging directory installs "*" into its package.
LEMMA StagingRuleType ==
    ASSUME NEW pkg
    PROVE  /\ StagingRule(pkg).type = "install" /\ StagingRule(pkg).into = {pkg}
           /\ StagingRule(pkg).sources = <<Anything>> /\ StagingRule(pkg).limit = <<>>
BY DEF StagingRule, InstallKeep, Generic

\* The initial state is well typed.
THEOREM TypeInit == Init => TypeInv
<1> SUFFICES ASSUME Init PROVE TypeInv
  OBVIOUS
<1> USE DEF Init
<1>1. rule \in Rules
  BY DEF Rules
<1>2. cur \in Matched
  BY TreeAssumption DEF NoMatch, Matched
<1>3. alreadyMatched \in [FsPath -> SUBSET Package] /\ discarded \in [FsPath -> DiscardStates]
  BY DEF DiscardStates
<1>4. DOMAIN fs = Package
  OBVIOUS
<1>5. TypeOK
  BY <1>1, <1>2, <1>3, <1>4, SearchDirAssumption DEF TypeOK, Phases, Errors, Rules, Dirs
<1>6. Scope
  BY DEF Scope
<1> QED  BY <1>5, <1>6 DEF TypeInv

\* Raising an error leaves the bookkeeping well typed.
LEMMA FailKeepsType ==
    ASSUME TypeInv, NEW e \in Errors \ {"none"}, Fail(e)
    PROVE  TypeInv'
BY DEF TypeInv, TypeOK, Scope, Fail, Phases, Errors, Applicable,
       searchVars, placeVars, manifestVars, matcherVars

\* Every query leaves a well-typed cache.
LEMMA CachedType ==
    ASSUME TypeInv, NEW root \in Seq(STRING), NEW S \in SUBSET FsPath
    PROVE  CachedFor(root, S) \in [FsPath -> DiscardStates]
BY CachedForFacts DEF TypeInv, TypeOK, DiscardedType

\* The parts of the state the actions pick apart have their types.
LEMMA StateFacts ==
    ASSUME TypeInv
    PROVE  /\ rule \in Rules /\ rule.into \subseteq Package /\ rule.sources \in Seq(Patterns)
           /\ cur.path \in FsPath /\ cur.root \in Seq(STRING) /\ cur.into \subseteq Package
           /\ pc = "match" => /\ Root \in Seq(STRING)
                              /\ Applicable \subseteq Package
           /\ pc \in {"search", "match", "install", "place", "recurse"} => Pattern \in Patterns
<1>1. rule \in Rules
  BY DEF TypeInv, TypeOK, Rules
<1>2. rule.into \subseteq Package /\ rule.sources \in Seq(Patterns)
  BY <1>1, RuleFacts
<1>3. cur.path \in FsPath /\ cur.root \in Seq(STRING) /\ cur.into \subseteq Package
  BY DEF TypeInv, TypeOK, Matched
<1>4. ASSUME pc = "match" PROVE Root \in Seq(STRING) /\ Applicable \subseteq Package
  <2>1. dirs[sd] \in [root : Seq(STRING), appliesTo : SUBSET Package]
    <3>1. dirs \in Dirs /\ sd \in 1..Len(dirs)
      BY <1>4 DEF TypeInv, TypeOK, Scope
    <3> QED  BY <3>1, ElementOfSeq DEF Dirs
  <2> QED  BY <2>1 DEF Root, Applicable
<1>5. ASSUME pc \in {"search", "match", "install", "place", "recurse"} PROVE Pattern \in Patterns
  BY <1>2, <1>5 DEF TypeInv, Scope, Pattern
<1> QED  BY <1>1, <1>2, <1>3, <1>4, <1>5

\* Starting a rule resets the search to a well-typed state.
LEMMA StartRuleType ==
    ASSUME TypeInv, NEW r \in Rules, r.type \in {"install", "discard"}, NEW where \in Dirs, StartRule(r, where),
           toStage' \subseteq DOMAIN StagingRoot, rulesLeft' \in Nat, toDetect' = toDetect, pc = "rules"
    PROVE  TypeInv'
<1>1. r.into \subseteq Package /\ Len(r.sources) \in Nat \ {0}
  BY RuleFacts
<1>2. matches' \in Seq(Matched)
  BY DEF StartRule
<1>3. TypeOK'
  BY <1>1, <1>2 DEF TypeInv, TypeOK, StartRule, Phases, placeVars, matcherVars, Rules
<1>4. Scope'
  BY <1>1 DEF StartRule, Scope
<1> QED  BY <1>3, <1>4 DEF TypeInv

\* perform_installations' own steps keep the types.
LEMMA TypeOfRuleSteps ==
    ASSUME TypeInv
    PROVE  /\ \A pkg \in Package : PerformStaging(pkg) => TypeInv'
           /\ \A r \in RuleSpace : PerformRule(r) \/ RejectRule(r) => TypeInv'
           /\ EndOfRules => TypeInv'
<1>1. ASSUME NEW pkg \in Package, PerformStaging(pkg)  PROVE TypeInv'
  <2> DEFINE where == <<[root |-> StagingRoot[pkg], appliesTo |-> {pkg}]>>
  <2>1. pkg \in DOMAIN StagingRoot => where \in Dirs
    BY SearchDirAssumption DEF Dirs
  <2>2. pkg \in DOMAIN StagingRoot
    BY <1>1 DEF PerformStaging, TypeInv, TypeOK
  <2>3. StagingRule(pkg) \in Rules /\ StagingRule(pkg).type = "install"
    BY StagingRuleType DEF Rules
  <2>4. toStage' \subseteq DOMAIN StagingRoot /\ rulesLeft' \in Nat /\ toDetect' = toDetect /\ pc = "rules"
    BY <1>1 DEF PerformStaging, TypeInv, TypeOK
  <2>5. StartRule(StagingRule(pkg), where)
    BY <1>1 DEF PerformStaging
  <2> HIDE DEF where
  <2> QED  BY <2>1, <2>2, <2>3, <2>4, <2>5, StartRuleType
<1>2. ASSUME NEW r \in RuleSpace, PerformRule(r)  PROVE TypeInv'
  <2>1. r \in Rules /\ r.type \in {"install", "discard"} /\ SearchDirs \in Dirs
    BY RuleAssumption, SearchDirAssumption DEF Rules
  <2>2. toStage' \subseteq DOMAIN StagingRoot /\ rulesLeft' \in Nat /\ toDetect' = toDetect /\ pc = "rules"
    BY <1>2 DEF PerformRule, TypeInv, TypeOK
  <2>3. StartRule(r, SearchDirs)
    BY <1>2 DEF PerformRule
  <2> QED  BY <2>1, <2>2, <2>3, StartRuleType
<1>3. ASSUME NEW r \in RuleSpace, RejectRule(r)  PROVE TypeInv'
  BY <1>3, FailKeepsType DEF RejectRule, Errors
<1>4. ASSUME EndOfRules  PROVE TypeInv'
  BY <1>4 DEF EndOfRules, TypeInv, TypeOK, Scope, Phases, Applicable,
              searchVars, placeVars, manifestVars, matcherVars
<1> QED  BY <1>1, <1>2, <1>3, <1>4

\* Moving through the search directories keeps the types.
LEMMA TypeOfSearchSteps ==
    ASSUME TypeInv
    PROVE  SkipSearchDir \/ EnterSearchDir \/ LeaveSearchDir => TypeInv'
<1> USE DEF TypeInv, TypeOK, Scope, Phases, placeVars, manifestVars, matcherVars
<1>1. CASE SkipSearchDir
  BY <1>1 DEF SkipSearchDir
<1>2. CASE EnterSearchDir
  <2>1. todo' \subseteq FsPath
    BY <1>2, StateFacts, YieldsType DEF EnterSearchDir
  <2>2. sd \in 1..Len(dirs) /\ (rule.into # {} => Applicable # {}) /\ Applicable' = Applicable
    BY <1>2 DEF EnterSearchDir, Skipped, Dirs, Applicable
  <2> QED  BY <1>2, <2>1, <2>2 DEF EnterSearchDir
<1>3. CASE LeaveSearchDir
  <2>1. missing' \subseteq Package
    BY <1>3 DEF LeaveSearchDir
  <2>2. sd' \in Nat \ {0}
    BY <1>3 DEF LeaveSearchDir, Dirs
  <2> QED  BY <1>3, <2>1, <2>2 DEF LeaveSearchDir
<1> QED  BY <1>1, <1>2, <1>3

\* Every outcome of a match keeps the types.
LEMMA TypeOfMatchSteps ==
    ASSUME TypeInv, NEW p \in FsPath, Match(p)
    PROVE  TypeInv'
<1> USE DEF TypeInv, TypeOK, Scope, Phases, placeVars, manifestVars, matcherVars
<1>1. CASE MatchRootDir(p)
  BY <1>1, FailKeepsType DEF MatchRootDir, Errors
<1>2. CASE MatchReserved(p)
  <2>1. CASE IsExact
    BY <1>2, <2>1, FailKeepsType DEF MatchReserved, Errors
  <2>2. CASE ~ IsExact
    BY <1>2, <2>2 DEF MatchReserved, Applicable
  <2> QED  BY <2>1, <2>2
<1>3. CASE MatchExcluded(p)
  <2>1. pc = "match"
    BY <1>3 DEF MatchExcluded, Yielded
  <2>2. discarded' \in [FsPath -> DiscardStates]
    BY <1>3, <2>1, StateFacts, CachedType DEF MatchExcluded
  <2>3. CASE IsExact
    BY <1>3, <2>1, <2>2, <2>3 DEF MatchExcluded, Errors
  <2>4. CASE ~ IsExact
    BY <1>3, <2>1, <2>2, <2>4 DEF MatchExcluded, Applicable
  <2> QED  BY <2>3, <2>4
<1>4. CASE MatchAndReserve(p)
  <2>1. pc = "match"
    BY <1>4 DEF MatchAndReserve, Yielded
  <2>2. CASE RequestedBefore(p)
    BY <1>4, <2>2, FailKeepsType DEF MatchAndReserve, Errors
  <2>3. CASE ~ RequestedBefore(p)
    <3>0. /\ discarded' = CachedFor(Root, {p})
          /\ exactRequest' = exactRequest \cup (IF IsExact THEN Applicable \X {p} ELSE {})
          /\ alreadyMatched' = [alreadyMatched EXCEPT ![p] = Applicable]
          /\ matches' = Append(matches, [path |-> p, root |-> Root, into |-> Applicable])
      BY <1>4, <2>3 DEF MatchAndReserve
    <3>1. discarded' \in [FsPath -> DiscardStates]
      BY <2>1, <3>0, StateFacts, CachedType
    <3>2. [path |-> p, root |-> Root, into |-> Applicable] \in Matched
      BY <2>1, StateFacts DEF Matched
    <3>3. matches' \in Seq(Matched)
      BY <3>0, <3>2, AppendProperties
    <3>4. exactRequest' \subseteq Package \X FsPath /\ alreadyMatched' \in [FsPath -> SUBSET Package]
      BY <2>1, <3>0, StateFacts
    <3> QED  BY <1>4, <2>1, <2>3, <3>1, <3>3, <3>4 DEF MatchAndReserve, Applicable
  <2> QED  BY <2>2, <2>3
<1>5. CASE MatchAndExclude(p)
  <2>1. pc = "match"
    BY <1>5 DEF MatchAndExclude, Yielded
  <2>2. discarded' \in [FsPath -> DiscardStates]
    <3>1. CachedFor(Root, {p}) \in [FsPath -> DiscardStates]
      BY <2>1, StateFacts, CachedType
    <3> QED  BY <1>5, <3>1 DEF MatchAndExclude, DiscardStates
  <2>3. [path |-> p, root |-> Root, into |-> {}] \in Matched
    BY <2>1, StateFacts DEF Matched
  <2>4. matches' \in Seq(Matched)
    BY <1>5, <2>3, AppendProperties DEF MatchAndExclude
  <2> QED  BY <1>5, <2>1, <2>2, <2>4 DEF MatchAndExclude, Applicable
<1> QED  BY <1>1, <1>2, <1>3, <1>4, <1>5 DEF Match

\* Going on to the next pattern, rule or match keeps the types.
LEMMA TypeOfPatternSteps ==
    ASSUME TypeInv
    PROVE  NothingMatched \/ PatternMatched \/ FinishPattern \/ NextMatch => TypeInv'
<1> USE DEF TypeInv, TypeOK, Scope, Phases, placeVars, manifestVars, matcherVars
<1>1. CASE NothingMatched
  <2>1. CASE rule.builtin
    BY <1>1, <2>1 DEF NothingMatched, Searched, searchVars
  <2>2. CASE ~ rule.builtin
    BY <1>1, <2>2, FailKeepsType DEF NothingMatched, Errors
  <2> QED  BY <2>1, <2>2
<1>2. ASSUME NextPattern, pc \in {"search", "install"},
             UNCHANGED <<rule, dirs, todo, placeVars, manifestVars, matcherVars, fs, error>>
      PROVE  TypeInv'
  <2>1. missing' \subseteq Package
    BY <1>2, StateFacts DEF NextPattern
  <2>2. matches' \in Seq(Matched)
    BY <1>2 DEF NextPattern
  <2>3. src' \in Nat \ {0} /\ sd' \in Nat \ {0} /\ pc' \in {"search", "rules"}
    BY <1>2 DEF NextPattern
  <2>4. pc' = "search" => src' \in 1..Len(rule.sources)
    BY <1>2, StateFacts DEF NextPattern
  <2> QED  BY <1>2, <2>1, <2>2, <2>3, <2>4
<1>3. CASE PatternMatched
  <2>1. CASE SingleMatchViolated
    BY <1>3, <2>1, FailKeepsType DEF PatternMatched, Errors
  <2>2. CASE ~ SingleMatchViolated /\ (rule.type = "discard" \/ Disabled)
    BY <1>2, <1>3, <2>2 DEF PatternMatched, Searched
  <2>3. CASE ~ SingleMatchViolated /\ ~ (rule.type = "discard" \/ Disabled)
    BY <1>3, <2>3 DEF PatternMatched, Searched
  <2> QED  BY <2>1, <2>2, <2>3
<1>4. CASE FinishPattern
  BY <1>2, <1>4 DEF FinishPattern
<1>5. CASE NextMatch
  <2>1. Head(matches) \in Matched /\ Tail(matches) \in Seq(Matched)
    BY <1>5, HeadTailProperties DEF NextMatch
  <2> QED  BY <1>5, <2>1 DEF NextMatch
<1> QED  BY <1>1, <1>3, <1>4, <1>5

\* Writing into the packages keeps the types.
LEMMA TypeOfPlaceSteps ==
    ASSUME TypeInv
    PROVE  /\ PlaceError \/ Place \/ Placed \/ FinishMatch => TypeInv'
           /\ \A e \in FsPath : InstallEntry(e) \/ EntryError(e) => TypeInv'
<1> USE DEF TypeInv, TypeOK, Scope, Phases, placeVars, manifestVars, matcherVars, searchVars
<1>1. CASE PlaceError
  BY <1>1, FailKeepsType DEF PlaceError, Errors
<1>2. CASE Place
  BY <1>2 DEF Place
<1>3. \A d : Children(d) \subseteq FsPath /\ Unreserved(d) \subseteq FsPath
  BY DEF Children, Unreserved
<1>4. \A d : CachedByIsReserved(cur.root, Children(d)) \in [FsPath -> DiscardStates]
  BY <1>3, CachedType, StateFacts DEF CachedByIsReserved
<1>5. CASE Placed
  BY <1>3, <1>4, <1>5 DEF Placed
<1>6. CASE FinishMatch
  BY <1>6 DEF FinishMatch
<1>7. ASSUME NEW e \in FsPath, InstallEntry(e)  PROVE TypeInv'
  <2>1. alreadyMatched' \in [FsPath -> SUBSET Package]
    BY <1>7, StateFacts DEF InstallEntry
  <2>2. work' \subseteq FsPath /\ discarded' \in [FsPath -> DiscardStates] /\ DOMAIN fs' = Package
    BY <1>3, <1>4, <1>7 DEF InstallEntry
  <2> QED  BY <1>7, <2>1, <2>2 DEF InstallEntry
<1>8. ASSUME NEW e \in FsPath, EntryError(e)  PROVE TypeInv'
  BY <1>8, FailKeepsType DEF EntryError, EntryErrors, Errors
<1> QED  BY <1>1, <1>2, <1>5, <1>6, <1>7, <1>8

\* detect_missing keeps the types.
LEMMA TypeOfDetectSteps ==
    ASSUME TypeInv
    PROVE  /\ \A root \in CheckDirs : Detect(root) => TypeInv'
           /\ AllDetected \/ Ended \/ UNCHANGED vars => TypeInv'
<1> USE DEF TypeInv, TypeOK, Scope, Phases, placeVars, manifestVars, matcherVars, searchVars
<1>1. ASSUME NEW root \in CheckDirs, Detect(root)  PROVE TypeInv'
  <2>1. MustBeHandled(root) \subseteq FsPath /\ root \in Seq(STRING)
    BY SearchDirAssumption DEF MustBeHandled, Beneath
  <2>2. discarded' \in [FsPath -> DiscardStates]
    BY <1>1, <2>1, CachedType DEF Detect, CachedByIsReserved
  <2> QED  BY <1>1, <2>2 DEF Detect, Errors
<1>2. CASE AllDetected
  BY <1>2 DEF AllDetected
<1>3. CASE Ended \/ UNCHANGED vars
  BY <1>3 DEF Ended, vars, Applicable
<1> QED  BY <1>1, <1>2, <1>3

\* No step leaves the types.
THEOREM TypeStep == TypeInv /\ [Next]_vars => TypeInv'
BY TypeOfRuleSteps, TypeOfSearchSteps, TypeOfMatchSteps, TypeOfPatternSteps,
   TypeOfPlaceSteps, TypeOfDetectSteps DEF Next

\* SourcePathMatcher's maps stay total on the existing paths, the indices stay in
\* range where they are used, and an error is recorded exactly when a run failed.
THEOREM TypeCorrect == Spec => []TypeInv
<1>1. Init => TypeInv
  BY TypeInit
<1>2. TypeInv /\ [Next]_vars => TypeInv'
  BY TypeStep
<1> QED  BY <1>1, <1>2, PTL DEF Spec

\* The type invariant the runs check holds throughout.
THEOREM TypesAreCorrect == Spec => []TypeOK
<1>1. TypeInv => TypeOK
  BY DEF TypeInv
<1> QED  BY <1>1, TypeCorrect, PTL

-----------------------------------------------------------------------------
(* The reservations.                                                       *)

\* A match lies in the search directory it was found in.
InView(m) == IsPrefix(m.root, m.path)

\* The matches and what is still to be matched lie in their search directories.
SearchInv ==
    /\ pc = "match" => \A p \in todo : IsPrefix(Root, p)
    /\ \A i \in 1..Len(matches) : InView(matches[i])
    /\ InView(cur)

\* What was asked for by its exact name is claimed.
RequestInv == \A pkg \in Package, p \in FsPath : <<pkg, p>> \in exactRequest => Claimed(p)

\* The stack of _install_dir_recursively is only filled while it runs; its entries
\* are free, not discarded, and none lies below another.
StackInv ==
    /\ work # {} => pc \in {"recurse", "failed"}
    /\ \A e \in work : ~ Claimed(e) /\ discarded[e] = "not" /\ IsPrefix(cur.root, e)
    /\ \A e, f \in work : IsPrefix(e, f) => e = f

\* The inductive invariant of the matcher.  DiscardRespected alone is not
\* inductive: reserve() overwrites what it finds, so one needs to know that what is
\* on the stack is free, which in turn needs the chain walk to see all of it.
ClaimInv == TypeInv /\ SearchInv /\ DiscardRespected /\ RequestInv /\ StackInv

\* The invariant holds before the first rule.
LEMMA ClaimInit == Init => ClaimInv
<1> SUFFICES ASSUME Init PROVE ClaimInv
  OBVIOUS
<1>1. TypeInv
  BY TypeInit
<1>2. InView(cur)
  BY DEF Init, NoMatch, InView, IsPrefix
<1> QED  BY <1>1, <1>2 DEF Init, ClaimInv, SearchInv, DiscardRespected, RequestInv, StackInv, Claimed

\* Every step keeps the matches in their search directories.
LEMMA SearchStep == ClaimInv /\ [Next]_vars => SearchInv'
<1> SUFFICES ASSUME ClaimInv, [Next]_vars PROVE SearchInv'
  OBVIOUS
<1> USE DEF ClaimInv, SearchInv
<1>1. TypeInv /\ TypeInv'
  BY TypeStep
<1>2. Len(matches) \in Nat
  BY <1>1, LenProperties DEF TypeInv, TypeOK
<1>3. ASSUME NEW p \in FsPath, NEW m, m = [path |-> p, root |-> Root, into |-> m.into],
             p \in todo, pc = "match", matches' = Append(matches, m)
      PROVE  \A i \in 1..Len(matches') : InView(matches'[i])
  <2>1. InView(m)
    BY <1>3 DEF InView
  <2>2. Len(matches') = Len(matches) + 1 /\ matches \in Seq(Matched)
    BY <1>1, <1>3 DEF TypeInv, TypeOK
  <2>3. \A i \in 1..Len(matches') : matches'[i] = IF i = Len(matches) + 1 THEN m ELSE matches[i]
    BY <1>2, <1>3, <2>2
  <2> QED  BY <1>2, <2>1, <2>2, <2>3
<1>4. ASSUME UNCHANGED <<todo, matches, cur, dirs, sd>>, pc' # "match" \/ pc = "match"
      PROVE  SearchInv'
  BY <1>4 DEF Root, InView
<1>5. ASSUME NEW e, Fail(e)  PROVE SearchInv'
  BY <1>5, <1>4 DEF Fail, searchVars, placeVars
<1>6. ASSUME matches' = <<>>, cur' = cur, pc' # "match"  PROVE SearchInv'
  BY <1>6 DEF InView
<1>7. ASSUME NEW p \in FsPath, Match(p)  PROVE SearchInv'
  <2>1. p \in todo /\ pc = "match"
    BY <1>7 DEF Match, Yielded, MatchRootDir, MatchReserved, MatchExcluded, MatchAndReserve, MatchAndExclude
  <2>2. CASE MatchRootDir(p)
    BY <2>2, <1>5 DEF MatchRootDir
  <2>3. CASE MatchReserved(p)
    BY <2>3, <1>5 DEF MatchReserved, Root, InView, placeVars
  <2>4. CASE MatchExcluded(p)
    BY <2>4 DEF MatchExcluded, Root, InView, placeVars
  <2>5. CASE MatchAndReserve(p)
    <3>1. CASE RequestedBefore(p)
      BY <2>5, <3>1, <1>5 DEF MatchAndReserve
    <3>2. CASE ~ RequestedBefore(p)
      <4>1. /\ matches' = Append(matches, [path |-> p, root |-> Root, into |-> Applicable])
            /\ todo' = todo \ {p} /\ UNCHANGED <<dirs, sd, cur>>
        BY <2>5, <3>2 DEF MatchAndReserve, placeVars
      <4>2. \A i \in 1..Len(matches') : InView(matches'[i])
        BY <1>3, <2>1, <4>1
      <4> QED  BY <2>1, <4>1, <4>2 DEF Root, InView
    <3> QED  BY <3>1, <3>2
  <2>6. CASE MatchAndExclude(p)
    <3>1. /\ matches' = Append(matches, [path |-> p, root |-> Root, into |-> {}])
          /\ todo' = todo \ {p} /\ UNCHANGED <<dirs, sd, cur>>
      BY <2>6 DEF MatchAndExclude, placeVars
    <3>2. \A i \in 1..Len(matches') : InView(matches'[i])
      BY <1>3, <2>1, <3>1
    <3> QED  BY <2>1, <3>1, <3>2 DEF Root, InView
  <2> QED  BY <1>7, <2>2, <2>3, <2>4, <2>5, <2>6 DEF Match
<1>8. ASSUME EnterSearchDir  PROVE SearchInv'
  <2>1. /\ todo' = Yields(Pattern, Root) /\ pc' = "match" /\ pc = "search"
        /\ UNCHANGED <<dirs, sd, cur, matches, rule, src>>
    BY <1>8 DEF EnterSearchDir, placeVars
  <2>2. Root' = Root /\ Pattern \in Patterns /\ Root' \in Seq(STRING)
    <3>1. Pattern \in Patterns /\ Root' = Root
      BY <1>1, <2>1, StateFacts DEF Root
    <3>2. dirs \in Dirs /\ sd \in 1..Len(dirs)
      BY <1>1, <2>1 DEF TypeInv, TypeOK, Scope
    <3>3. dirs[sd] \in [root : Seq(STRING), appliesTo : SUBSET Package]
      BY <3>2, ElementOfSeq DEF Dirs
    <3> QED  BY <3>1, <3>3 DEF Root
  <2>3. \A p \in todo' : IsPrefix(Root', p)
    BY <2>1, <2>2, YieldsBelowRoot
  <2> QED  BY <2>1, <2>3 DEF InView
<1>9. ASSUME NextMatch  PROVE SearchInv'
  <2>1. /\ matches \in Seq(Matched) /\ matches # <<>> /\ pc' = "place"
        /\ cur' = Head(matches) /\ matches' = Tail(matches)
    BY <1>1, <1>9 DEF NextMatch, TypeInv, TypeOK
  <2>2. cur' = matches[1] /\ 1 \in 1..Len(matches)
    BY <1>2, <2>1
  <2>3. Len(matches') = Len(matches) - 1 /\ \A i \in 1..Len(matches') : matches'[i] = matches[i + 1]
    BY <2>1, HeadTailProperties
  <2>4. \A i \in 1..Len(matches') : InView(matches'[i])
    BY <1>2, <2>3
  <2> QED  BY <2>1, <2>2, <2>4
<1>10. ASSUME NextPattern, UNCHANGED <<cur>>  PROVE SearchInv'
  BY <1>6, <1>10 DEF NextPattern
<1>11. CASE UNCHANGED vars
  BY <1>4, <1>11 DEF vars, searchVars, placeVars
<1>12. CASE Next
  <2> USE DEF searchVars, placeVars
  <2>1. ASSUME NEW pkg \in Package, PerformStaging(pkg)  PROVE SearchInv'
    BY <2>1, <1>6 DEF PerformStaging, StartRule
  <2>2. ASSUME NEW r \in RuleSpace, PerformRule(r)  PROVE SearchInv'
    BY <2>2, <1>6 DEF PerformRule, StartRule
  <2>3. ASSUME NEW r \in RuleSpace, RejectRule(r)  PROVE SearchInv'
    BY <2>3, <1>5 DEF RejectRule
  <2>4. CASE EndOfRules \/ AllDetected \/ FinishMatch \/ Ended
    BY <2>4, <1>4 DEF EndOfRules, AllDetected, FinishMatch, Ended, vars
  <2>5. CASE SkipSearchDir \/ LeaveSearchDir
    BY <2>5 DEF SkipSearchDir, LeaveSearchDir, InView
  <2>6. CASE NothingMatched
    BY <2>6, <1>4, <1>5 DEF NothingMatched
  <2>7. CASE PatternMatched
    BY <2>7, <1>4, <1>5, <1>10 DEF PatternMatched
  <2>8. CASE FinishPattern
    BY <2>8, <1>10 DEF FinishPattern
  <2>9. CASE PlaceError
    BY <2>9, <1>5 DEF PlaceError
  <2>10. CASE Place \/ Placed
    BY <2>10, <1>4 DEF Place, Placed
  <2>11. ASSUME NEW e \in FsPath, InstallEntry(e) \/ EntryError(e)  PROVE SearchInv'
    BY <2>11, <1>4, <1>5 DEF InstallEntry, EntryError
  <2>12. ASSUME NEW root \in CheckDirs, Detect(root)  PROVE SearchInv'
    BY <2>12, <1>4 DEF Detect
  <2> QED  BY <1>7, <1>8, <1>9, <1>12, <2>1, <2>2, <2>3, <2>4, <2>5, <2>6, <2>7, <2>8, <2>9,
              <2>10, <2>11, <2>12 DEF Next
<1> QED  BY <1>11, <1>12

\* The steps that only ask for discard states.
LookedUp ==
    /\ \E root \in Seq(STRING), S \in SUBSET FsPath :
           /\ \A p \in S : ~ Claimed(p)
           /\ discarded' = CachedFor(root, S)
    /\ UNCHANGED <<alreadyMatched, exactRequest>>

\* What reserve() and exclude() require of a path.
CanTake(p) ==
    /\ Root \in Seq(STRING) /\ IsPrefix(Root, p)
    /\ ~ Claimed(p) /\ MayMatch(p)

\* The steps that reserve a match.
Taken(p) ==
    /\ CanTake(p)
    /\ Applicable \in (SUBSET Package) \ {{}}
    /\ discarded' = CachedFor(Root, {p})
    /\ exactRequest' = exactRequest \cup (IF IsExact THEN Applicable \X {p} ELSE {})
    /\ alreadyMatched' = [alreadyMatched EXCEPT ![p] = Applicable]

\* The steps that discard a match.
Excluded(p) ==
    /\ CanTake(p)
    /\ discarded' = [CachedFor(Root, {p}) EXCEPT ![p] = "manifest"]
    /\ UNCHANGED <<alreadyMatched, exactRequest>>

\* The steps that reserve an entry of a directory.
Entered(e) ==
    /\ e \in work /\ rule.into \in (SUBSET Package) \ {{}}
    /\ alreadyMatched' = [alreadyMatched EXCEPT ![e] = rule.into]
    /\ discarded' = CachedByIsReserved(cur.root, Children(e))
    /\ UNCHANGED exactRequest

\* All a step can do to SourcePathMatcher is one of these four things.
LEMMA MatcherSteps ==
    ASSUME ClaimInv, [Next]_vars
    PROVE  \/ UNCHANGED matcherVars
           \/ LookedUp
           \/ \E p \in FsPath : Taken(p) \/ Excluded(p)
           \/ \E e \in FsPath : Entered(e)
<1>1. TypeInv
  BY DEF ClaimInv
<1>2. ASSUME NEW p \in FsPath, Yielded(p)
      PROVE  Root \in Seq(STRING) /\ IsPrefix(Root, p) /\ Applicable \subseteq Package
  BY <1>1, <1>2, StateFacts DEF Yielded, ClaimInv, SearchInv
<1>3. ASSUME NEW p \in FsPath, MatchExcluded(p)  PROVE LookedUp
  <2>1. Root \in Seq(STRING) /\ {p} \in SUBSET FsPath /\ \A q \in {p} : ~ Claimed(q)
    BY <1>2, <1>3 DEF MatchExcluded
  <2>2. discarded' = CachedFor(Root, {p}) /\ UNCHANGED <<alreadyMatched, exactRequest>>
    BY <1>3 DEF MatchExcluded
  <2> QED  BY <2>1, <2>2 DEF LookedUp
<1>4. ASSUME NEW p \in FsPath, MatchAndReserve(p)  PROVE UNCHANGED matcherVars \/ Taken(p)
  <2>1. CASE RequestedBefore(p)
    BY <1>4, <2>1 DEF MatchAndReserve, Fail
  <2>2. CASE ~ RequestedBefore(p)
    <3>1. CanTake(p)
      BY <1>2, <1>4 DEF MatchAndReserve, CanTake
    <3>2. Applicable \in (SUBSET Package) \ {{}}
      BY <1>1, <1>2, <1>4 DEF MatchAndReserve, Yielded, TypeInv, Scope
    <3> QED  BY <1>4, <2>2, <3>1, <3>2 DEF MatchAndReserve, Taken
  <2> QED  BY <2>1, <2>2
<1>5. ASSUME NEW p \in FsPath, MatchAndExclude(p)  PROVE Excluded(p)
  BY <1>2, <1>5 DEF MatchAndExclude, Excluded, CanTake
<1>6. ASSUME NEW p \in FsPath, Match(p)  PROVE UNCHANGED matcherVars \/ LookedUp \/ Taken(p) \/ Excluded(p)
  BY <1>3, <1>4, <1>5, <1>6 DEF Match, MatchRootDir, MatchReserved, Fail, matcherVars
<1>7. ASSUME NEW root \in Seq(STRING), NEW S \in SUBSET FsPath, discarded' = CachedByIsReserved(root, S),
             UNCHANGED <<alreadyMatched, exactRequest>>
      PROVE  LookedUp
  BY <1>7 DEF LookedUp, CachedByIsReserved
<1>8. CASE Placed
  <2>1. CASE IsDir(cur.path)
    <3>1. cur.root \in Seq(STRING) /\ Children(cur.path) \in SUBSET FsPath
      BY <1>1, StateFacts DEF Children
    <3> QED  BY <1>7, <1>8, <2>1, <3>1 DEF Placed
  <2>2. CASE ~ IsDir(cur.path)
    BY <1>8, <2>2 DEF Placed, matcherVars
  <2> QED  BY <2>1, <2>2
<1>9. ASSUME NEW root \in CheckDirs, Detect(root)  PROVE LookedUp
  <2>1. MustBeHandled(root) \in SUBSET FsPath /\ root \in Seq(STRING)
    BY SearchDirAssumption DEF MustBeHandled, Beneath
  <2> QED  BY <1>7, <1>9, <2>1 DEF Detect
<1>10. ASSUME NEW e \in FsPath, InstallEntry(e)  PROVE Entered(e)
  <2>1. rule.into \in (SUBSET Package) \ {{}}
    BY <1>1, <1>10, StateFacts, RuleFacts DEF InstallEntry, TypeInv, Scope
  <2> QED  BY <1>10, <2>1 DEF InstallEntry, Entered
<1>11. CASE UNCHANGED vars
  BY <1>11 DEF vars
<1>12. CASE Next
  <2>1. ASSUME NEW pkg \in Package, PerformStaging(pkg)  PROVE UNCHANGED matcherVars
    BY <2>1 DEF PerformStaging, StartRule
  <2>2. ASSUME NEW r \in RuleSpace, PerformRule(r) \/ RejectRule(r)  PROVE UNCHANGED matcherVars
    BY <2>2 DEF PerformRule, StartRule, RejectRule, Fail
  <2>3. CASE EndOfRules \/ AllDetected \/ FinishMatch \/ Ended \/ SkipSearchDir \/ EnterSearchDir \/ LeaveSearchDir
    BY <2>3 DEF EndOfRules, AllDetected, FinishMatch, Ended, vars, SkipSearchDir, EnterSearchDir, LeaveSearchDir
  <2>4. CASE NothingMatched \/ PatternMatched \/ FinishPattern \/ NextMatch
    BY <2>4 DEF NothingMatched, PatternMatched, FinishPattern, NextMatch, Fail
  <2>5. CASE PlaceError \/ Place
    BY <2>5 DEF PlaceError, Place, Fail
  <2>6. ASSUME NEW e \in FsPath, EntryError(e)  PROVE UNCHANGED matcherVars
    BY <2>6 DEF EntryError, Fail
  <2> QED  BY <1>6, <1>8, <1>9, <1>10, <1>12, <2>1, <2>2, <2>3, <2>4, <2>5, <2>6 DEF Next
<1> QED  BY <1>11, <1>12

\* The types the lemmas about the matcher need.
LEMMA MatcherTypes ==
    ASSUME ClaimInv
    PROVE  /\ TypeInv /\ DiscardedType
           /\ alreadyMatched \in [FsPath -> SUBSET Package]
           /\ \A p \in FsPath : Claimed(p) => discarded[p] # "unchecked"
BY DEF ClaimInv, TypeInv, TypeOK, DiscardedType, DiscardRespected

\* A path may_match allowed is afterwards known as not discarded, unless an exact
\* pattern overruled a plugin; nothing becomes discarded by the manifest.
LEMMA CanTakeFacts ==
    ASSUME ClaimInv, NEW p \in FsPath, CanTake(p)
    PROVE  LET c == CachedFor(Root, {p})
           IN  /\ c \in [FsPath -> DiscardStates]
               /\ \A q \in FsPath : discarded[q] # "unchecked" => c[q] = discarded[q]
               /\ c[p] = "not" \/ (c[p] = "plugin" /\ IsExact)
               /\ \A q \in FsPath : c[q] # discarded[q] => c[q] \in {"not", "plugin"}
<1>1. Root \in Seq(STRING) /\ {p} \in SUBSET FsPath /\ IsPrefix(Root, p)
  BY DEF CanTake
<1>2. ExcludeState(Root, p) = "not" \/ (ExcludeState(Root, p) = "plugin" /\ IsExact)
  BY DEF CanTake, MayMatch
<1>3. DiscardedType
  BY MatcherTypes
<1>4. /\ CachedFor(Root, {p}) \in [FsPath -> DiscardStates]
      /\ \A q \in FsPath : discarded[q] # "unchecked" => CachedFor(Root, {p})[q] = discarded[q]
      /\ \A o \in {p} : IsPrefix(Root, o) => CachedFor(Root, {p})[o] = ExcludeState(Root, o)
      /\ \A q \in FsPath : CachedFor(Root, {p})[q] # discarded[q] =>
             \E o \in {p} : /\ q \in CacheMisses(Root, o)
                           /\ CachedFor(Root, {p})[q] = ExcludeState(Root, o)
  BY ONLY <1>1, <1>3, CachedForFacts
<1> HIDE DEF CanTake
<1> QED  BY <1>1, <1>2, <1>4

\* is_reserved leaves known states alone and records the verdict of what it was
\* asked about.
LEMMA LookFacts ==
    ASSUME ClaimInv, NEW root \in Seq(STRING), NEW S \in SUBSET FsPath
    PROVE  LET c == CachedByIsReserved(root, S)
           IN  /\ c \in [FsPath -> DiscardStates]
               /\ \A q \in FsPath : discarded[q] # "unchecked" => c[q] = discarded[q]
               /\ \A p \in S : ~ Claimed(p) /\ IsPrefix(root, p) => c[p] = ExcludeState(root, p)
<1> DEFINE T == {p \in S : ~ Claimed(p)}
<1>1. T \in SUBSET FsPath
  OBVIOUS
<1>2. DiscardedType
  BY MatcherTypes
<1>3. /\ CachedFor(root, T) \in [FsPath -> DiscardStates]
      /\ \A q \in FsPath : discarded[q] # "unchecked" => CachedFor(root, T)[q] = discarded[q]
      /\ \A p \in T : IsPrefix(root, p) => CachedFor(root, T)[p] = ExcludeState(root, p)
  <2> HIDE DEF T
  <2> QED  BY <1>1, <1>2, CachedForFacts
<1> QED  BY <1>3 DEF CachedByIsReserved

\* No step changes who has a path.
LEMMA ClaimsStay ==
    ASSUME ClaimInv, [Next]_vars, NEW p \in FsPath, Claimed(p)
    PROVE  alreadyMatched'[p] = alreadyMatched[p]
<1>1. ASSUME NEW q \in FsPath, Taken(q) \/ Excluded(q)  PROVE alreadyMatched'[p] = alreadyMatched[p]
  BY <1>1, MatcherTypes DEF Taken, Excluded, CanTake
<1>2. ASSUME NEW e \in FsPath, Entered(e)  PROVE alreadyMatched'[p] = alreadyMatched[p]
  BY <1>2, MatcherTypes DEF Entered, ClaimInv, StackInv
<1> QED  BY <1>1, <1>2, MatcherSteps DEF LookedUp, matcherVars

\* A known discard state only changes when the manifest discards a free path.
LEMMA KnownStatesStay ==
    ASSUME ClaimInv, [Next]_vars, NEW p \in FsPath, discarded[p] # "unchecked"
    PROVE  \/ discarded'[p] = discarded[p]
           \/ discarded'[p] = "manifest" /\ ~ Claimed(p)
<1>1. CASE LookedUp
  <2>1. PICK root \in Seq(STRING), S \in SUBSET FsPath : discarded' = CachedFor(root, S)
    BY <1>1 DEF LookedUp
  <2>2. CachedFor(root, S)[p] = discarded[p]
    BY MatcherTypes, CachedForFacts
  <2> QED  BY <2>1, <2>2
<1>2. ASSUME NEW q \in FsPath, Taken(q)  PROVE discarded'[p] = discarded[p]
  BY <1>2, CanTakeFacts DEF Taken
<1>3. ASSUME NEW q \in FsPath, Excluded(q)
      PROVE  \/ discarded'[p] = discarded[p]
             \/ discarded'[p] = "manifest" /\ ~ Claimed(p)
  <2>1. /\ CachedFor(Root, {q}) \in [FsPath -> DiscardStates]
        /\ CachedFor(Root, {q})[p] = discarded[p] /\ ~ Claimed(q)
    BY <1>3, CanTakeFacts DEF Excluded, CanTake
  <2> QED  BY <1>3, <2>1 DEF Excluded
<1>4. ASSUME NEW e \in FsPath, Entered(e)  PROVE discarded'[p] = discarded[p]
  <2>1. cur.root \in Seq(STRING) /\ Children(e) \in SUBSET FsPath
    BY MatcherTypes, StateFacts DEF Children
  <2> QED  BY <1>4, <2>1, LookFacts DEF Entered
<1> QED  BY <1>1, <1>2, <1>3, <1>4, MatcherSteps DEF matcherVars

\* Every step respects the discards.
LEMMA DiscardStep == ClaimInv /\ [Next]_vars => DiscardRespected' /\ RequestInv'
<1> SUFFICES ASSUME ClaimInv, [Next]_vars PROVE DiscardRespected' /\ RequestInv'
  OBVIOUS
<1>1. ASSUME NEW p \in FsPath, Claimed(p)
      PROVE  Claimed(p)' /\ discarded'[p] = discarded[p]
  BY <1>1, ClaimsStay, KnownStatesStay, MatcherTypes DEF Claimed
<1>2. exactRequest \subseteq exactRequest'
  BY MatcherSteps DEF LookedUp, Taken, Excluded, Entered, matcherVars
<1>3. ASSUME NEW p \in FsPath, Claimed(p)
      PROVE  \/ discarded'[p] = "not"
             \/ discarded'[p] = "plugin" /\ \E pkg \in Package : <<pkg, p>> \in exactRequest'
  BY <1>1, <1>2, <1>3 DEF ClaimInv, DiscardRespected
<1>4. CASE UNCHANGED matcherVars \/ LookedUp
  <2>1. alreadyMatched' = alreadyMatched /\ exactRequest' = exactRequest
    BY <1>4 DEF LookedUp, matcherVars
  <2>2. \A p \in FsPath : Claimed(p)' <=> Claimed(p)
    BY <2>1 DEF Claimed
  <2> QED  BY <1>3, <2>1, <2>2 DEF DiscardRespected, RequestInv, ClaimInv
<1>5. ASSUME NEW p \in FsPath, Taken(p)  PROVE DiscardRespected' /\ RequestInv'
  <2>1. \A q \in FsPath \ {p} : Claimed(q)' <=> Claimed(q)
    BY <1>5, MatcherTypes DEF Taken, Claimed
  <2>2. Claimed(p)'
    BY <1>5, MatcherTypes DEF Taken, Claimed
  <2>3. discarded'[p] = "not" \/ (discarded'[p] = "plugin" /\ IsExact)
    BY <1>5, CanTakeFacts DEF Taken
  <2>4. IsExact => \E pkg \in Package : <<pkg, p>> \in exactRequest'
    BY <1>5 DEF Taken
  <2>5. \A pkg \in Package, q \in FsPath : <<pkg, q>> \in exactRequest' => q = p \/ <<pkg, q>> \in exactRequest
    BY <1>5 DEF Taken
  <2> QED  BY <1>1, <1>3, <2>1, <2>2, <2>3, <2>4, <2>5 DEF DiscardRespected, RequestInv, ClaimInv
<1>6. ASSUME NEW p \in FsPath, Excluded(p)  PROVE DiscardRespected' /\ RequestInv'
  <2>1. alreadyMatched' = alreadyMatched /\ exactRequest' = exactRequest
    BY <1>6 DEF Excluded
  <2>2. \A q \in FsPath : Claimed(q)' <=> Claimed(q)
    BY <2>1 DEF Claimed
  <2> QED  BY <1>3, <2>1, <2>2 DEF DiscardRespected, RequestInv, ClaimInv
<1>7. ASSUME NEW e \in FsPath, Entered(e)  PROVE DiscardRespected' /\ RequestInv'
  <2>1. exactRequest' = exactRequest /\ \A q \in FsPath \ {e} : Claimed(q)' <=> Claimed(q)
    BY <1>7, MatcherTypes DEF Entered, Claimed
  <2>2. discarded[e] = "not" /\ ~ Claimed(e)
    BY <1>7 DEF Entered, ClaimInv, StackInv
  <2>3. discarded'[e] = "not"
    <3>1. cur.root \in Seq(STRING) /\ Children(e) \in SUBSET FsPath
      BY MatcherTypes, StateFacts DEF Children
    <3> QED  BY <1>7, <2>2, <3>1, LookFacts DEF Entered
  <2> QED  BY <1>1, <1>3, <2>1, <2>3 DEF DiscardRespected, RequestInv, ClaimInv
<1> QED  BY <1>4, <1>5, <1>6, <1>7, MatcherSteps

\* What goes on the stack is free, in the view, and recorded as not discarded.
LEMMA UnreservedFacts ==
    ASSUME ClaimInv, NEW d \in FsPath, IsPrefix(cur.root, d), NEW c \in Unreserved(d)
    PROVE  /\ c \in FsPath /\ ~ Claimed(c) /\ IsPrefix(cur.root, c) /\ c # d
           /\ CachedByIsReserved(cur.root, Children(d))[c] = "not"
<1>1. d \in Seq(STRING) /\ cur.root \in Seq(STRING) /\ c \in Children(d) /\ Children(d) \in SUBSET FsPath
  BY MatcherTypes, StateFacts, TreeAssumption DEF Unreserved, Children
<1>2. c \in FsPath /\ IsPrefix(cur.root, c) /\ Len(c) = Len(d) + 1 /\ Len(d) \in Nat
  BY <1>1, ChildPrefix, LenProperties
<1>3. ~ Claimed(c) /\ ExcludeState(cur.root, c) = "not"
  BY DEF Unreserved, IsReserved
<1>4. CachedByIsReserved(cur.root, Children(d))[c] = ExcludeState(cur.root, c)
  BY <1>1, <1>2, <1>3, LookFacts
<1> QED  BY <1>1, <1>2, <1>3, <1>4

\* Every step keeps the stack free of reserved and discarded paths.
LEMMA StackStep == ClaimInv /\ [Next]_vars => StackInv'
<1> SUFFICES ASSUME ClaimInv, [Next]_vars PROVE StackInv'
  OBVIOUS
<1>1. TypeInv /\ cur.path \in FsPath
  BY MatcherTypes, StateFacts
<1>2. ASSUME work' = {}  PROVE StackInv'
  BY <1>2 DEF StackInv
<1>3. ASSUME UNCHANGED <<work, cur, alreadyMatched, discarded>>, pc' = pc \/ pc' = "failed" \/ work' = {}
      PROVE  StackInv'
  BY <1>3 DEF ClaimInv, StackInv, Claimed
<1>4. CASE Placed
  <2>1. CASE IsDir(cur.path)
    <3>1. /\ work' = Unreserved(cur.path) /\ pc' = "recurse"
          /\ UNCHANGED <<cur, alreadyMatched>>
          /\ discarded' = CachedByIsReserved(cur.root, Children(cur.path))
      BY <1>4, <2>1 DEF Placed
    <3>2. IsPrefix(cur.root, cur.path)
      BY DEF ClaimInv, SearchInv, InView
    <3>3. \A e, f \in work' : IsPrefix(e, f) => e = f
      BY <1>1, <3>1, SiblingsApart, TreeAssumption DEF Unreserved
    <3> QED  BY <1>1, <3>1, <3>2, <3>3, UnreservedFacts DEF StackInv, Claimed
  <2>2. CASE ~ IsDir(cur.path)
    <3>1. work = {} /\ work' = work
      BY <1>4, <2>2 DEF Placed, ClaimInv, StackInv
    <3> QED  BY <1>2, <3>1
  <2> QED  BY <2>1, <2>2
<1>5. ASSUME NEW e \in FsPath, InstallEntry(e)  PROVE StackInv'
  <2>1. /\ pc = "recurse" /\ pc' = pc /\ cur' = cur /\ e \in work
        /\ work' = (work \ {e}) \cup Unreserved(e)
        /\ discarded' = CachedByIsReserved(cur.root, Children(e))
        /\ alreadyMatched' = [alreadyMatched EXCEPT ![e] = rule.into]
    BY <1>5 DEF InstallEntry
  <2>2. /\ IsPrefix(cur.root, e) /\ work \subseteq FsPath
        /\ \A f \in work : ~ Claimed(f) /\ discarded[f] = "not" /\ IsPrefix(cur.root, f)
    BY <1>1, <2>1 DEF ClaimInv, StackInv, TypeInv, TypeOK
  <2>3. \A f \in FsPath \ {e} : Claimed(f)' <=> Claimed(f)
    BY <2>1, MatcherTypes DEF Claimed
  <2>4. \A f \in work \ {e} : ~ Claimed(f)' /\ discarded'[f] = "not"
    <3>1. cur.root \in Seq(STRING) /\ Children(e) \in SUBSET FsPath
      BY <1>1, StateFacts DEF Children
    <3>2. \A f \in work : discarded'[f] = discarded[f]
      BY <2>1, <2>2, <3>1, LookFacts
    <3> QED  BY <2>2, <2>3, <3>2
  <2>5. \A f \in Unreserved(e) : ~ Claimed(f)' /\ discarded'[f] = "not" /\ IsPrefix(cur.root, f)
    BY <2>1, <2>2, <2>3, UnreservedFacts
  <2>6. ASSUME NEW f \in work', NEW g \in work', IsPrefix(f, g)  PROVE f = g
    <3>1. /\ e \in Seq(STRING) /\ f \in Seq(STRING) /\ g \in Seq(STRING)
          /\ \A x, y \in work : IsPrefix(x, y) => x = y
      BY <2>1, <2>2, TreeAssumption DEF Unreserved, Children, ClaimInv, StackInv
    <3>2. CASE f \in Unreserved(e) /\ g \in Unreserved(e)
      BY <2>6, <3>1, <3>2, SiblingsApart DEF Unreserved
    <3>3. CASE f \in work \ {e} /\ g \in work \ {e}
      BY <2>6, <3>1, <3>3
    <3>4. CASE f \in Unreserved(e) /\ g \in work \ {e}
      <4>1. IsPrefix(e, e)
        BY <3>1, LenProperties DEF IsPrefix
      <4>2. IsPrefix(e, f)
        BY <3>1, <3>4, <4>1, ChildPrefix DEF Unreserved
      <4>3. IsPrefix(e, g)
        BY <2>6, <3>1, <4>2, PrefixTransitive
      <4> QED  BY <2>1, <3>1, <3>4, <4>3
    <3>5. CASE f \in work \ {e} /\ g \in Unreserved(e)
      <4>1. IsPrefix(e, e)
        BY <3>1, LenProperties DEF IsPrefix
      <4>2. IsPrefix(e, g) /\ Len(g) = Len(e) + 1 /\ Len(e) \in Nat /\ Len(f) \in Nat /\ Len(g) \in Nat
        BY <3>1, <3>5, <4>1, ChildPrefix, LenProperties DEF Unreserved
      <4>3. CASE Len(f) <= Len(e)
        BY <2>1, <2>6, <3>1, <3>5, <4>2, <4>3, PrefixesOrdered
      <4>4. CASE Len(f) > Len(e)
        BY <2>6, <3>1, <4>2, <4>4, SamePrefix DEF IsPrefix
      <4> QED  BY <4>2, <4>3, <4>4
    <3> QED  BY <2>1, <3>2, <3>3, <3>4, <3>5
  <2> QED  BY <2>1, <2>2, <2>4, <2>5, <2>6 DEF StackInv
<1>6. ASSUME NEW e, Fail(e)  PROVE StackInv'
  BY <1>3, <1>6 DEF Fail, placeVars, matcherVars
<1>7. ASSUME pc \notin {"recurse", "failed"}, work' = work  PROVE StackInv'
  BY <1>2, <1>7 DEF ClaimInv, StackInv
<1>8. CASE UNCHANGED vars
  BY <1>3, <1>8 DEF vars, placeVars, matcherVars
<1>9. CASE Next
  <2> USE DEF placeVars
  <2>1. ASSUME NEW pkg \in Package, PerformStaging(pkg)  PROVE StackInv'
    BY <1>7, <2>1 DEF PerformStaging, StartRule
  <2>2. ASSUME NEW r \in RuleSpace, PerformRule(r) \/ RejectRule(r)  PROVE StackInv'
    BY <1>6, <1>7, <2>2 DEF PerformRule, StartRule, RejectRule
  <2>3. CASE EndOfRules \/ AllDetected \/ SkipSearchDir \/ EnterSearchDir \/ LeaveSearchDir
    BY <1>7, <2>3 DEF EndOfRules, AllDetected, SkipSearchDir, EnterSearchDir, LeaveSearchDir
  <2>4. CASE NothingMatched \/ PatternMatched \/ FinishPattern \/ NextMatch
    BY <1>6, <1>7, <2>4 DEF NothingMatched, PatternMatched, FinishPattern, NextMatch, Searched
  <2>5. CASE PlaceError \/ Place
    BY <1>6, <1>7, <2>5 DEF PlaceError, Place
  <2>6. ASSUME NEW e \in FsPath, EntryError(e)  PROVE StackInv'
    BY <1>6, <2>6 DEF EntryError
  <2>7. CASE FinishMatch
    BY <1>2, <2>7 DEF FinishMatch
  <2>8. CASE Ended
    BY <1>8, <2>8 DEF Ended
  <2>9. ASSUME NEW root \in CheckDirs, Detect(root)  PROVE StackInv'
    BY <1>7, <2>9 DEF Detect
  <2>10. ASSUME NEW p \in FsPath, Match(p)  PROVE StackInv'
    BY <1>6, <1>7, <2>10
       DEF Match, Yielded, MatchRootDir, MatchReserved, MatchExcluded, MatchAndReserve, MatchAndExclude
  <2> QED  BY <1>4, <1>5, <1>9, <2>1, <2>2, <2>3, <2>4, <2>5, <2>6, <2>7, <2>8, <2>9, <2>10 DEF Next
<1> QED  BY <1>8, <1>9

\* The invariant of the matcher is inductive.
THEOREM ClaimStep == ClaimInv /\ [Next]_vars => ClaimInv'
BY TypeStep, SearchStep, DiscardStep, StackStep DEF ClaimInv

\* The invariant of the matcher holds throughout, for every tree, manifest, set of
\* search directories and plugin rules.
THEOREM ClaimsAlwaysHold == Spec => []ClaimInv
BY ClaimInit, ClaimStep, PTL DEF Spec

\* No step raises the error for a path that was requested twice.
LEMMA ErrorStep == ClaimInv /\ error # "exact-twice" /\ [Next]_vars => error' # "exact-twice"
<1> SUFFICES ASSUME ClaimInv, error # "exact-twice", [Next]_vars PROVE error' # "exact-twice"
  OBVIOUS
<1>1. ASSUME NEW p \in FsPath, MatchAndReserve(p)  PROVE error' # "exact-twice"
  <2>1. ~ RequestedBefore(p)
    <3>1. ~ Claimed(p) /\ Applicable \subseteq Package
      BY <1>1, MatcherTypes, StateFacts DEF MatchAndReserve, Yielded
    <3> QED  BY <3>1 DEF RequestedBefore, ClaimInv, RequestInv
  <2> QED  BY <1>1, <2>1 DEF MatchAndReserve
<1>2. ASSUME NEW p \in FsPath, Match(p)  PROVE error' # "exact-twice"
  BY <1>1, <1>2 DEF Match, MatchRootDir, MatchReserved, MatchExcluded, MatchAndExclude, Fail
<1>3. CASE UNCHANGED vars
  BY <1>3 DEF vars
<1>4. CASE Next
  <2>1. ASSUME NEW pkg \in Package, PerformStaging(pkg)  PROVE error' # "exact-twice"
    BY <2>1 DEF PerformStaging, StartRule
  <2>2. ASSUME NEW r \in RuleSpace, PerformRule(r) \/ RejectRule(r)  PROVE error' # "exact-twice"
    BY <2>2 DEF PerformRule, StartRule, RejectRule, Fail
  <2>3. CASE EndOfRules \/ AllDetected \/ FinishMatch \/ Ended \/ SkipSearchDir \/ EnterSearchDir \/ LeaveSearchDir
    BY <2>3 DEF EndOfRules, AllDetected, FinishMatch, Ended, vars, SkipSearchDir, EnterSearchDir, LeaveSearchDir
  <2>4. CASE NothingMatched \/ PatternMatched \/ FinishPattern \/ NextMatch
    BY <2>4 DEF NothingMatched, PatternMatched, FinishPattern, NextMatch, Fail
  <2>5. CASE PlaceError \/ Place \/ Placed
    BY <2>5 DEF PlaceError, Place, Placed, Fail
  <2>6. ASSUME NEW e \in FsPath, InstallEntry(e) \/ EntryError(e)  PROVE error' # "exact-twice"
    BY <2>6 DEF InstallEntry, EntryError, EntryErrors, Fail
  <2>7. ASSUME NEW root \in CheckDirs, Detect(root)  PROVE error' # "exact-twice"
    BY <2>7 DEF Detect
  <2> QED  BY <1>2, <1>4, <2>1, <2>2, <2>3, <2>4, <2>5, <2>6, <2>7 DEF Next
<1> QED  BY <1>3, <1>4

\* What the manifest discarded is never reserved, and what a plugin discarded only
\* by its exact name: the promise of may_match and is_reserved over whole runs.
THEOREM DiscardsAreRespected == Spec => []DiscardRespected
<1>1. ClaimInv => DiscardRespected
  BY DEF ClaimInv
<1> QED  BY <1>1, ClaimsAlwaysHold, PTL

\* The "matched twice" error of SourcePathMatcher cannot be raised: the second exact
\* request always fails as already reserved.
THEOREM ExactTwiceIsUnreachable == Spec => []ExactTwiceNeverReached
<1>1. Init => error # "exact-twice"
  BY DEF Init
<1>2. ClaimInv /\ ExactTwiceNeverReached /\ [Next]_vars => ExactTwiceNeverReached'
  BY ErrorStep DEF ExactTwiceNeverReached
<1>3. Init => ExactTwiceNeverReached
  BY <1>1 DEF ExactTwiceNeverReached
<1> QED  BY <1>2, <1>3, ClaimsAlwaysHold, PTL DEF Spec

\* MANIFEST-FORMAT.md, "the first match wins": no rule takes a path from another.
THEOREM FirstMatchAlwaysWins == Spec => FirstMatchWins
<1>1. ClaimInv /\ [Next]_vars => [\A p \in FsPath : Claimed(p) => alreadyMatched'[p] = alreadyMatched[p]]_vars
  BY ClaimsStay
<1> QED  BY <1>1, ClaimsAlwaysHold, PTL DEF Spec, FirstMatchWins

\* A discard state is only ever replaced by a discard of the manifest, and never
\* for a path somebody has.
THEOREM DiscardsAreFinal == Spec => DiscardIsFinal
<1>1. ClaimInv /\ [Next]_vars =>
          [\A p \in FsPath : discarded[p] # "unchecked" =>
              \/ discarded'[p] = discarded[p]
              \/ discarded'[p] = "manifest" /\ ~ Claimed(p)]_vars
  BY KnownStatesStay
<1> QED  BY <1>1, ClaimsAlwaysHold, PTL DEF Spec, DiscardIsFinal

\* Looking at the children of an entry that is not discarded discards nothing.
LEMMA MissedBelowNotDiscarded ==
    ASSUME DiscardedType, NEW root \in Seq(STRING), NEW e \in FsPath, IsPrefix(root, e),
           discarded[e] = "not", NEW c \in Children(e), NEW q \in CacheMisses(root, c)
    PROVE  ExcludeState(root, c) # "manifest"
<1> DEFINE D == Decisive(root, c)
           stop == CHOOSE x \in D : IsLongest(x, D)
<1>1. /\ e \in Seq(STRING) /\ c \in FsPath /\ c \in Seq(STRING)
      /\ IsPrefix(e, c) /\ IsPrefix(root, c) /\ Len(c) = Len(e) + 1 /\ Len(e) \in Nat
  BY TreeAssumption, ChildPrefix, LenProperties
<1>2. e \in D
  BY <1>1 DEF Decisive, Chain
<1>3. stop \in D /\ IsLongest(stop, D)
  BY <1>1, <1>2, StopType
<1>4. ExcludeState(root, c) = IF discarded[stop] # "unchecked" THEN discarded[stop] ELSE "plugin"
  BY <1>2 DEF ExcludeState
<1> HIDE DEF stop
<1>5. /\ stop \in FsPath /\ stop \in Seq(STRING) /\ IsPrefix(stop, c) /\ Len(stop) \in Nat
      /\ Len(e) <= Len(stop) /\ Len(stop) <= Len(c)
  BY <1>2, <1>3, LenProperties, TreeAssumption DEF Decisive, Chain, IsLongest, IsPrefix
<1>6. CASE Len(stop) = Len(c)
  <2>1. stop = c
    BY <1>1, <1>3, <1>6, ChainLength DEF Decisive
  <2>2. c \in D /\ q \in Chain(root, c) /\ discarded[q] = "unchecked" /\ Len(c) <= Len(q)
    BY <1>3, <2>1 DEF CacheMisses
  <2>3. q = c
    BY <1>1, <2>2, ChainLength, LenProperties
  <2> QED  BY <1>4, <2>1, <2>2, <2>3
<1>7. CASE Len(stop) = Len(e)
  <2>1. IsPrefix(stop, e)
    BY <1>1, <1>5, <1>7, PrefixesOrdered
  <2>2. stop = e
    BY <1>1, <1>5, <1>7, <2>1, SubSeqFull DEF IsPrefix
  <2> QED  BY <1>4, <2>2
<1> QED  BY <1>1, <1>5, <1>6, <1>7

\* Initially every path is free.
LEMMA RefinementInit == Init => Claims!Init
BY DEF Init, Claims!Init, Claims!Free, claim, Claimed

\* The abstract "free": neither claimed nor discarded by the manifest.
LEMMA ClaimedNotDiscarded ==
    ASSUME ClaimInv, NEW p \in FsPath
    PROVE  claim[p] = Claims!Free <=> ~ Claimed(p) /\ discarded[p] # "manifest"
BY DEF claim, Claims!Free, Claimed

\* A step that claims nothing discards free paths, possibly none.
LEMMA DiscardRefined ==
    ASSUME ClaimInv, [Next]_vars, alreadyMatched' = alreadyMatched
    PROVE  Claims!Next
<1> DEFINE gone == {p \in Claims!Unclaimed : discarded'[p] = "manifest"}
<1>1. gone \in SUBSET Claims!Unclaimed
  OBVIOUS
<1>2. \A p \in FsPath : discarded[p] = "manifest" => discarded'[p] = "manifest"
  BY KnownStatesStay
<1>3. ASSUME NEW p \in FsPath
      PROVE  claim'[p] = IF p \in gone THEN Claims!Discarded ELSE claim[p]
  <2>1. Claimed(p)' <=> Claimed(p)
    BY DEF Claimed
  <2>2. p \in gone <=> ~ Claimed(p) /\ discarded[p] # "manifest" /\ discarded'[p] = "manifest"
    BY ClaimedNotDiscarded DEF Claims!Unclaimed
  <2> HIDE DEF gone
  <2>3. CASE Claimed(p)
    BY <2>1, <2>2, <2>3 DEF claim
  <2>4. CASE ~ Claimed(p)
    <3>1. alreadyMatched[p] = {} /\ alreadyMatched'[p] = {}
      BY <2>4 DEF Claimed
    <3> QED  BY <1>2, <2>1, <2>2, <2>4, <3>1 DEF claim, Claims!Discarded
  <2> QED  BY <2>3, <2>4
<1>4. claim' = [p \in FsPath |-> claim'[p]]
  BY DEF claim
<1>5. claim' = [p \in FsPath |-> IF p \in gone THEN Claims!Discarded ELSE claim[p]]
  <2> HIDE DEF gone
  <2> QED  BY <1>3, <1>4
<1>6. Claims!Discard(gone)
  <2> HIDE DEF gone
  <2> QED  BY <1>5 DEF Claims!Discard
<1> QED  BY <1>1, <1>6 DEF Claims!Next

\* A step that claims a free path claims it and discards nothing.
LEMMA ClaimRefined ==
    ASSUME ClaimInv, NEW p \in FsPath, NEW pkgs \in (SUBSET Package) \ {{}},
           ~ Claimed(p), discarded[p] # "manifest",
           alreadyMatched' = [alreadyMatched EXCEPT ![p] = pkgs],
           \A q \in FsPath : discarded'[q] = "manifest" <=> discarded[q] = "manifest"
    PROVE  Claims!Next
<1>1. p \in Claims!Unclaimed
  BY ClaimedNotDiscarded DEF Claims!Unclaimed
<1>2. \A q \in FsPath : alreadyMatched'[q] = IF q = p THEN pkgs ELSE alreadyMatched[q]
  BY MatcherTypes
<1>3. \A q \in FsPath : claim'[q] = IF q = p THEN Claims!ClaimedBy(pkgs) ELSE claim[q]
  BY <1>2 DEF claim, Claimed, Claims!ClaimedBy
<1>4. claim' = [q \in FsPath |-> claim'[q]] /\ DOMAIN claim = FsPath
  BY DEF claim
<1>5. claim' = [claim EXCEPT ![p] = Claims!ClaimedBy(pkgs)]
  <2> HIDE DEF claim
  <2> QED  BY <1>3, <1>4
<1> QED  BY <1>1, <1>5 DEF Claims!Next, Claims!Claim

\* Every step of the rules is a claim, a discard or a stutter of PathClaims.
LEMMA RefinementStep == ClaimInv /\ [Next]_vars => [Claims!Next]_claim
<1> SUFFICES ASSUME ClaimInv, [Next]_vars PROVE [Claims!Next]_claim
  OBVIOUS
<1>1. CASE alreadyMatched' = alreadyMatched
  BY <1>1, DiscardRefined
<1>2. ASSUME NEW p \in FsPath, Taken(p)  PROVE Claims!Next
  <2>1. \A q \in FsPath : discarded'[q] = "manifest" <=> discarded[q] = "manifest"
    <3>1. \A q \in FsPath : discarded[q] # "unchecked" => discarded'[q] = discarded[q]
      BY <1>2, CanTakeFacts DEF Taken
    <3>2. \A q \in FsPath : discarded'[q] # discarded[q] => discarded'[q] \in {"not", "plugin"}
      BY <1>2, CanTakeFacts DEF Taken
    <3> QED  BY <3>1, <3>2
  <2>2. ~ Claimed(p) /\ discarded[p] # "manifest"
    <3>1. p \in Chain(Root, p)
      BY <1>2, SelfInChain DEF Taken, CanTake
    <3>2. ExcludeState(Root, p) \in {"not", "plugin"}
      BY <1>2 DEF Taken, CanTake, MayMatch
    <3> QED  BY <1>2, <3>1, <3>2, KnownStateStands DEF Taken, CanTake
  <2> QED  BY <1>2, <2>1, <2>2, ClaimRefined DEF Taken
<1>3. ASSUME NEW e \in FsPath, Entered(e)  PROVE Claims!Next
  <2> DEFINE T == {c \in Children(e) : ~ Claimed(c)}
  <2>1. /\ ~ Claimed(e) /\ discarded[e] = "not" /\ IsPrefix(cur.root, e)
        /\ cur.root \in Seq(STRING) /\ T \in SUBSET FsPath /\ T \subseteq Children(e)
    BY <1>3, MatcherTypes, StateFacts DEF Entered, ClaimInv, StackInv, Children
  <2>2. discarded' = CachedFor(cur.root, T)
    BY <1>3 DEF Entered, CachedByIsReserved
  <2> HIDE DEF T
  <2>3. ASSUME NEW q \in FsPath, discarded'[q] # discarded[q]
        PROVE  discarded'[q] # "manifest" /\ discarded[q] # "manifest"
    <3>1. PICK c \in T : q \in CacheMisses(cur.root, c) /\ discarded'[q] = ExcludeState(cur.root, c)
      <4>1. DiscardedType /\ cur.root \in Seq(STRING) /\ T \in SUBSET FsPath
        BY <2>1, MatcherTypes
      <4>2. CachedFor(cur.root, T)[q] # discarded[q] =>
                \E c \in T : /\ q \in CacheMisses(cur.root, c)
                            /\ CachedFor(cur.root, T)[q] = ExcludeState(cur.root, c)
        BY <4>1, CachedForFacts
      <4> QED  BY <2>2, <2>3, <4>2
    <3>2. ExcludeState(cur.root, c) # "manifest"
      BY <2>1, <3>1, MatcherTypes, MissedBelowNotDiscarded
    <3> QED  BY <3>1, <3>2 DEF CacheMisses
  <2>4. \A q \in FsPath : discarded'[q] = "manifest" <=> discarded[q] = "manifest"
    BY <2>3
  <2> QED  BY <1>3, <2>1, <2>4, ClaimRefined DEF Entered
<1> QED  BY <1>1, <1>2, <1>3, MatcherSteps DEF LookedUp, Excluded, matcherVars

\* The matcher implements PathClaims: with its cache, its two maps and three ways
\* to reserve a path, each path is free until it is claimed or discarded, for good.
THEOREM ClaimsAreImplemented == Spec => ClaimsSpec
BY RefinementInit, RefinementStep, ClaimsAlwaysHold, PTL DEF Spec, ClaimsSpec, Claims!Spec

\* What is in the tree of a package is reserved for the package.
Owned(t, pkg) ==
    \A x \in DOMAIN t : t[x].src # NoSource => t[x].src \in FsPath /\ pkg \in alreadyMatched[t[x].src]

\* The packages a match is written into have it reserved.
PlacementInv ==
    /\ missing \subseteq rule.into
    /\ \A i \in 1..Len(matches) :
           /\ matches[i].into \subseteq rule.into
           /\ matches[i].into \subseteq alreadyMatched[matches[i].path]
    /\ pc \in {"place", "recurse"} =>
           /\ cur.into \subseteq rule.into
           /\ cur.into \subseteq alreadyMatched[cur.path]
    /\ \A pkg \in Package : Owned(fs[pkg], pkg)

\* Initially the packages are empty.
LEMMA PlacementInit == Init => PlacementInv
BY DEF Init, PlacementInv, Owned, NoRule

\* Placing a match reserved for the package keeps the tree's entries reserved.
LEMMA PutIsOwned ==
    ASSUME NEW t, NEW d, NEW p \in FsPath, NEW pkg, Owned(t, pkg), pkg \in alreadyMatched[p]
    PROVE  Owned(PlaceIn(t, d, p), pkg)
<1> DEFINE m == Mkdirs(t, Parent(d))
<1>1. Owned(m, pkg)
  BY DEF Mkdirs, Present, Owned
<1> HIDE DEF m
<1>2. Owned(Put(m, d, p), pkg)
  BY <1>1 DEF Put, Owned
<1>3. PlaceIn(t, d, p) = m \/ PlaceIn(t, d, p) = Put(m, d, p)
  BY DEF PlaceIn, m
<1> QED  BY <1>1, <1>2, <1>3

\* A reservation is never reduced.
LEMMA ClaimsGrow ==
    ASSUME ClaimInv, [Next]_vars
    PROVE  \A p \in FsPath : alreadyMatched[p] \subseteq alreadyMatched'[p]
BY ClaimsStay DEF Claimed

\* Every step only writes what is reserved for the package.
LEMMA PlacementStep == ClaimInv /\ PlacementInv /\ [Next]_vars => PlacementInv'
<1> SUFFICES ASSUME ClaimInv, PlacementInv, [Next]_vars PROVE PlacementInv'
  OBVIOUS
<1> USE DEF PlacementInv
<1>1. TypeInv /\ TypeInv' /\ Len(matches) \in Nat /\ matches \in Seq(Matched) /\ DOMAIN fs = Package
  BY MatcherTypes, TypeStep, LenProperties DEF TypeInv, TypeOK
<1>2. \A p \in FsPath : alreadyMatched[p] \subseteq alreadyMatched'[p]
  BY ClaimsGrow
<1>3. ASSUME NEW i \in 1..Len(matches)  PROVE matches[i].path \in FsPath
  <2>1. matches[i] \in Matched
    BY <1>1, ElementOfSeq
  <2> QED  BY <2>1 DEF Matched
<1>4. cur.path \in FsPath
  BY <1>1, StateFacts
<1>5. ASSUME fs' = fs  PROVE \A pkg \in Package : Owned(fs[pkg], pkg)'
  BY <1>2, <1>5 DEF Owned
<1>6. ASSUME UNCHANGED <<rule, missing, matches, cur, fs>>,
             pc' \notin {"place", "recurse"} \/ pc \in {"place", "recurse"}
      PROVE  PlacementInv'
  BY <1>2, <1>3, <1>4, <1>5, <1>6
<1>7. ASSUME NEW e, Fail(e)  PROVE PlacementInv'
  BY <1>6, <1>7 DEF Fail, searchVars, placeVars
<1>8. ASSUME missing' \subseteq rule'.into, matches' = <<>>, pc' \notin {"place", "recurse"}, fs' = fs
      PROVE  PlacementInv'
  BY <1>5, <1>8
<1>9. ASSUME NextPattern, UNCHANGED <<rule, fs>>  PROVE PlacementInv'
  BY <1>8, <1>9 DEF NextPattern
<1>10. ASSUME NEW p \in FsPath, NEW into, pc = "match", pc' = pc, UNCHANGED <<rule, missing, fs>>,
              matches' = Append(matches, [path |-> p, root |-> Root, into |-> into]),
              into \subseteq rule.into, into \subseteq alreadyMatched'[p]
       PROVE  PlacementInv'
  <2> DEFINE m == [path |-> p, root |-> Root, into |-> into]
  <2>1. m.path = p /\ m.into = into
    OBVIOUS
  <2> HIDE DEF m
  <2>2. /\ matches' = Append(matches, m)
        /\ Len(matches') = Len(matches) + 1
        /\ \A i \in 1..Len(matches') : matches'[i] = IF i = Len(matches) + 1 THEN m ELSE matches[i]
    BY <1>1, <1>10 DEF m
  <2>3. ASSUME NEW i \in 1..Len(matches')
        PROVE  /\ matches'[i].into \subseteq rule'.into
               /\ matches'[i].into \subseteq alreadyMatched'[matches'[i].path]
    <3>1. CASE i = Len(matches) + 1
      BY <1>10, <2>1, <2>2, <3>1
    <3>2. CASE i # Len(matches) + 1
      <4>1. i \in 1..Len(matches) /\ matches'[i] = matches[i]
        BY <1>1, <2>2, <3>2
      <4> QED  BY <1>2, <1>3, <1>10, <4>1
    <3> QED  BY <3>1, <3>2
  <2> QED  BY <1>5, <1>10, <2>3
<1>11. ASSUME NEW p \in FsPath, Match(p)  PROVE PlacementInv'
  <2> USE DEF placeVars
  <2>1. CASE MatchRootDir(p)
    BY <1>7, <2>1 DEF MatchRootDir
  <2>2. CASE MatchReserved(p)
    BY <1>6, <1>7, <2>2 DEF MatchReserved, Yielded
  <2>3. CASE MatchExcluded(p)
    BY <1>6, <2>3 DEF MatchExcluded, Yielded
  <2>4. CASE MatchAndReserve(p)
    <3>1. CASE RequestedBefore(p)
      BY <1>7, <2>4, <3>1 DEF MatchAndReserve
    <3>2. CASE ~ RequestedBefore(p)
      <4>1. alreadyMatched'[p] = Applicable
        BY <2>4, <3>2, MatcherTypes DEF MatchAndReserve
      <4>2. Applicable \subseteq rule.into
        BY DEF Applicable
      <4> QED  BY <1>10, <2>4, <3>2, <4>1, <4>2 DEF MatchAndReserve, Yielded
    <3> QED  BY <3>1, <3>2
  <2>5. CASE MatchAndExclude(p)
    BY <1>10, <2>5 DEF MatchAndExclude, Yielded
  <2> QED  BY <1>11, <2>1, <2>2, <2>3, <2>4, <2>5 DEF Match
<1>12. CASE NextMatch
  <2>1. /\ matches # <<>> /\ pc' = "place" /\ UNCHANGED <<rule, missing, fs, alreadyMatched>>
        /\ cur' = Head(matches) /\ matches' = Tail(matches)
    BY <1>12 DEF NextMatch, matcherVars
  <2>2. cur' = matches[1] /\ 1 \in 1..Len(matches)
    BY <1>1, <2>1
  <2>3. Len(matches') = Len(matches) - 1 /\ \A i \in 1..Len(matches') : matches'[i] = matches[i + 1]
    BY <1>1, <2>1, HeadTailProperties
  <2>4. \A i \in 1..Len(matches') : i + 1 \in 1..Len(matches)
    BY <1>1, <2>3
  <2> QED  BY <1>5, <2>1, <2>2, <2>3, <2>4
<1>13. CASE Place
  <2>1. /\ pc = "place" /\ UNCHANGED <<pc, rule, missing, matches, cur, alreadyMatched>>
        /\ fs' = [pkg \in Package |->
                     IF pkg \in cur.into THEN PlaceIn(fs[pkg], Destination, cur.path) ELSE fs[pkg]]
    BY <1>13 DEF Place, searchVars, matcherVars
  <2>2. ASSUME NEW pkg \in Package  PROVE Owned(fs'[pkg], pkg)
    <3>1. CASE pkg \in cur.into
      <4>1. Owned(fs[pkg], pkg) /\ pkg \in alreadyMatched[cur.path]
        BY <2>1, <3>1
      <4> QED  BY <1>4, <2>1, <3>1, <4>1, PutIsOwned
    <3>2. CASE pkg \notin cur.into
      BY <2>1, <3>2
    <3> QED  BY <3>1, <3>2
  <2>3. \A pkg \in Package : Owned(fs[pkg], pkg)'
    BY <2>1, <2>2 DEF Owned
  <2> QED  BY <2>1, <2>3
<1>14. ASSUME NEW e \in FsPath, InstallEntry(e)  PROVE PlacementInv'
  <2>1. /\ pc = "recurse" /\ UNCHANGED <<pc, rule, missing, matches, cur>>
        /\ alreadyMatched' = [alreadyMatched EXCEPT ![e] = rule.into]
        /\ fs' = [pkg \in Package |->
                     IF pkg \in cur.into THEN PutEntry(fs[pkg], e) ELSE fs[pkg]]
    BY <1>14 DEF InstallEntry, searchVars
  <2>2. alreadyMatched'[e] = rule.into
    BY <2>1, MatcherTypes
  <2>3. ASSUME NEW pkg \in Package, NEW x \in DOMAIN fs'[pkg], fs'[pkg][x].src # NoSource
        PROVE  fs'[pkg][x].src \in FsPath /\ pkg \in alreadyMatched'[fs'[pkg][x].src]
    <3>1. CASE pkg \in cur.into
      <4>1. fs'[pkg] = PutEntry(fs[pkg], e)
        BY <2>1, <3>1
      <4>2. fs'[pkg][x].src = e \/ (x \in DOMAIN fs[pkg] /\ fs'[pkg][x] = fs[pkg][x])
        BY <4>1 DEF PutEntry
      <4>3. CASE fs'[pkg][x].src = e
        BY <2>1, <2>2, <3>1, <4>3
      <4>4. CASE x \in DOMAIN fs[pkg] /\ fs'[pkg][x] = fs[pkg][x]
        BY <1>2, <2>3, <4>4 DEF Owned
      <4> QED  BY <4>2, <4>3, <4>4
    <3>2. CASE pkg \notin cur.into
      <4>1. fs'[pkg] = fs[pkg]
        BY <2>1, <3>2
      <4> QED  BY <1>2, <2>3, <4>1 DEF Owned
    <3> QED  BY <3>1, <3>2
  <2>4. \A pkg \in Package : Owned(fs[pkg], pkg)'
    BY <2>3 DEF Owned
  <2> QED  BY <1>2, <1>3, <1>4, <2>1, <2>4
<1>15. CASE UNCHANGED vars
  BY <1>6, <1>15 DEF vars, searchVars, placeVars
<1>16. CASE Next
  <2> USE DEF searchVars, placeVars
  <2>1. ASSUME NEW pkg \in Package, PerformStaging(pkg)  PROVE PlacementInv'
    BY <1>8, <2>1 DEF PerformStaging, StartRule
  <2>2. ASSUME NEW r \in RuleSpace, PerformRule(r) \/ RejectRule(r)  PROVE PlacementInv'
    BY <1>7, <1>8, <2>2 DEF PerformRule, StartRule, RejectRule
  <2>3. CASE EndOfRules \/ AllDetected \/ FinishMatch \/ Ended \/ EnterSearchDir \/ SkipSearchDir
    BY <1>6, <1>15, <2>3 DEF EndOfRules, AllDetected, FinishMatch, Ended, EnterSearchDir, SkipSearchDir
  <2>4. CASE LeaveSearchDir
    <3>1. /\ missing' \subseteq missing /\ pc' = "search"
          /\ UNCHANGED <<rule, matches, cur, fs, alreadyMatched>>
      BY <2>4 DEF LeaveSearchDir, matcherVars
    <3> QED  BY <1>5, <3>1
  <2>5. CASE NothingMatched
    BY <1>6, <1>7, <2>5 DEF NothingMatched
  <2>6. CASE PatternMatched
    BY <1>6, <1>7, <1>9, <2>6 DEF PatternMatched
  <2>7. CASE FinishPattern
    BY <1>9, <2>7 DEF FinishPattern
  <2>8. CASE PlaceError
    BY <1>7, <2>8 DEF PlaceError
  <2>9. CASE Placed
    BY <1>6, <2>9 DEF Placed
  <2>10. ASSUME NEW e \in FsPath, EntryError(e)  PROVE PlacementInv'
    BY <1>7, <2>10 DEF EntryError
  <2>11. ASSUME NEW root \in CheckDirs, Detect(root)  PROVE PlacementInv'
    BY <1>6, <2>11 DEF Detect
  <2> QED  BY <1>11, <1>12, <1>13, <1>14, <1>16, <2>1, <2>2, <2>3, <2>4, <2>5, <2>6, <2>7,
              <2>8, <2>9, <2>10, <2>11 DEF Next
<1> QED  BY <1>15, <1>16

\* Nothing gets into a package that is not reserved for it, whatever the
\* destinations are and whatever is replaced on the way.
THEOREM OnlyClaimedIsInstalled == Spec => []NothingUnclaimedInstalled
<1>1. PlacementInv => NothingUnclaimedInstalled
  BY DEF PlacementInv, NothingUnclaimedInstalled, Owned
<1> QED  BY <1>1, PlacementInit, PlacementStep, ClaimsAlwaysHold, PTL DEF Spec

\* The recursion into a directory never meets a path that is claimed, discarded or
\* already on its stack.
THEOREM StackIsAlwaysFresh == Spec => []StackIsFresh
<1>1. ClaimInv => StackIsFresh
  <2> SUFFICES ASSUME ClaimInv, NEW e \in work
               PROVE  ~ Claimed(e) /\ discarded[e] = "not" /\ Children(e) \cap work = {}
    BY DEF StackIsFresh
  <2>1. e \in Seq(STRING) /\ Len(e) \in Nat /\ IsPrefix(e, e)
    BY MatcherTypes, TreeAssumption, LenProperties DEF TypeInv, TypeOK, IsPrefix
  <2>2. \A c \in Children(e) : IsPrefix(e, c) /\ c # e
    BY <2>1, ChildPrefix
  <2> QED  BY <2>2 DEF ClaimInv, StackInv
<1> QED  BY <1>1, ClaimsAlwaysHold, PTL


-----------------------------------------------------------------------------
(* Which search directory serves a package.                                 *)

\* Between the search directories, no match is for a package that is still to be
\* served; within one, such matches are from the directory itself, and it yielded
\* something, so that it will be the last for them.
ServedInv ==
    /\ pc = "search" => \A i \in 1..Len(matches) : matches[i].into \cap missing = {}
    /\ pc = "match" =>
          /\ todo \subseteq Yields(Pattern, Root)
          /\ \A i \in 1..Len(matches) :
                \/ matches[i].into \cap missing = {}
                \/ /\ matches[i].root = Root /\ matches[i].into \subseteq Applicable
                   /\ Yields(Pattern, Root) # {}
    /\ \A i, j \in 1..Len(matches) :
          matches[i].into \cap matches[j].into # {} => matches[i].root = matches[j].root

\* A search directory that yielded something does not yield to the next.
LEMMA ServedStep == TypeInv /\ ServedInv /\ [Next]_vars => ServedInv'
<1> SUFFICES ASSUME TypeInv, ServedInv, [Next]_vars PROVE ServedInv'
  OBVIOUS
<1>1. matches \in Seq(Matched) /\ Len(matches) \in Nat
  BY DEF TypeInv, TypeOK
<1>2. ASSUME matches' = matches, pc' \notin {"search", "match"}  PROVE ServedInv'
  BY <1>2 DEF ServedInv
<1>3. ASSUME matches' = <<>>, pc' # "match"  PROVE ServedInv'
  BY <1>3 DEF ServedInv
<1>4. ASSUME NEW e, Fail(e)  PROVE ServedInv'
  BY <1>2, <1>4 DEF Fail, searchVars
<1>5. ASSUME pc = "match", pc' = pc, todo' \subseteq todo,
             UNCHANGED <<rule, dirs, src, sd, missing, matches>>
      PROVE  ServedInv'
  BY <1>5 DEF ServedInv, Pattern, Root, Applicable
<1>6. ASSUME NEW p, NEW into, pc = "match", pc' = pc, p \in todo, todo' = todo \ {p},
             into \subseteq Applicable, UNCHANGED <<rule, dirs, src, sd, missing>>,
             matches' = Append(matches, [path |-> p, root |-> Root, into |-> into])
      PROVE  ServedInv'
  <2> DEFINE m == [path |-> p, root |-> Root, into |-> into]
  <2>0. PICK n \in Nat : n = Len(matches)
    BY <1>1
  <2>1. Len(matches') = n + 1 /\ \A i \in 1..(n + 1) : matches'[i] = IF i = n + 1 THEN m ELSE matches[i]
    BY <1>1, <1>6, <2>0
  <2>2. \A i \in 1..(n + 1) : i \in 1..n \/ i = n + 1
    OBVIOUS
  <2>3. m.root = Root /\ m.into = into
    OBVIOUS
  <2> HIDE DEF m
  <2>4. Pattern' = Pattern /\ Root' = Root /\ Applicable' = Applicable
    BY <1>6 DEF Pattern, Root, Applicable
  <2>5. \A i \in 1..n : \/ matches[i].into \cap missing = {}
                        \/ /\ matches[i].root = Root /\ matches[i].into \subseteq Applicable
                           /\ Yields(Pattern, Root) # {}
    BY <1>6, <2>0 DEF ServedInv
  <2>6. p \in Yields(Pattern, Root) /\ todo' \subseteq Yields(Pattern, Root)
    BY <1>6 DEF ServedInv
  <2>7. \A i \in 1..(n + 1) :
           \/ matches'[i].into \cap missing = {}
           \/ /\ matches'[i].root = Root /\ matches'[i].into \subseteq Applicable
              /\ Yields(Pattern, Root) # {}
    BY <1>6, <2>1, <2>2, <2>3, <2>5, <2>6
  <2>8. \A i \in 1..n : matches[i].into \cap into # {} => matches[i].root = Root
    BY <1>6, <2>5 DEF Applicable
  <2>9. ASSUME NEW i \in 1..(n + 1), NEW j \in 1..(n + 1), matches'[i].into \cap matches'[j].into # {}
        PROVE  matches'[i].root = matches'[j].root
    <3>1. CASE i = n + 1 /\ j = n + 1
      BY <3>1
    <3>2. CASE i \in 1..n /\ j = n + 1
      BY <2>1, <2>3, <2>8, <2>9, <3>2
    <3>3. CASE i = n + 1 /\ j \in 1..n
      BY <2>1, <2>3, <2>8, <2>9, <3>3
    <3>4. CASE i \in 1..n /\ j \in 1..n
      BY <2>0, <2>1, <2>9, <3>4 DEF ServedInv
    <3> QED  BY <2>2, <3>1, <3>2, <3>3, <3>4
  <2> QED  BY <1>6, <2>1, <2>4, <2>6, <2>7, <2>9 DEF ServedInv
<1>7. ASSUME NEW p \in FsPath, Match(p)  PROVE ServedInv'
  <2>1. p \in todo /\ pc = "match"
    BY <1>7 DEF Match, Yielded, MatchRootDir, MatchReserved, MatchExcluded, MatchAndReserve, MatchAndExclude
  <2>2. CASE MatchRootDir(p)
    BY <2>2, <1>4 DEF MatchRootDir
  <2>3. CASE MatchReserved(p)
    BY <2>1, <2>3, <1>4, <1>5 DEF MatchReserved
  <2>4. CASE MatchExcluded(p)
    BY <2>1, <2>4, <1>2, <1>5 DEF MatchExcluded
  <2>5. CASE MatchAndReserve(p)
    BY <2>1, <2>5, <1>4, <1>6 DEF MatchAndReserve
  <2>6. CASE MatchAndExclude(p)
    BY <2>1, <2>6, <1>6 DEF MatchAndExclude
  <2> QED  BY <1>7, <2>2, <2>3, <2>4, <2>5, <2>6 DEF Match
<1>8. CASE EnterSearchDir
  BY <1>8 DEF EnterSearchDir, ServedInv, Pattern, Root
<1>9. CASE LeaveSearchDir
  <2>1. /\ pc = "match" /\ pc' = "search" /\ matches' = matches
        /\ missing' = IF Yields(Pattern, Root) # {} THEN missing \ Applicable ELSE missing
    BY <1>9 DEF LeaveSearchDir
  <2>2. \A i \in 1..Len(matches) : matches[i].into \cap missing' = {}
    BY <2>1 DEF ServedInv
  <2> QED  BY <2>1, <2>2 DEF ServedInv
<1>10. CASE NextMatch
  <2>0. PICK n \in Nat : n = Len(matches)
    BY <1>1
  <2>1. /\ matches # <<>> /\ matches' = Tail(matches) /\ pc' = "place"
    BY <1>10 DEF NextMatch
  <2>2. Len(matches') = n - 1 /\ \A i \in 1..(n - 1) : matches'[i] = matches[i + 1]
    BY <1>1, <2>0, <2>1, HeadTailProperties
  <2>3. \A i \in 1..(n - 1) : i + 1 \in 1..n
    OBVIOUS
  <2>4. ASSUME NEW i \in 1..(n - 1), NEW j \in 1..(n - 1), matches'[i].into \cap matches'[j].into # {}
        PROVE  matches'[i].root = matches'[j].root
    BY <2>0, <2>2, <2>3, <2>4 DEF ServedInv
  <2> QED  BY <2>1, <2>2, <2>4 DEF ServedInv
<1>11. CASE UNCHANGED vars
  BY <1>11 DEF vars, searchVars, ServedInv, Pattern, Root, Applicable
<1>12. CASE Next
  <2> USE DEF searchVars
  <2>1. ASSUME NEW pkg \in Package, PerformStaging(pkg)  PROVE ServedInv'
    BY <2>1, <1>3 DEF PerformStaging, StartRule
  <2>2. ASSUME NEW r \in RuleSpace, PerformRule(r) \/ RejectRule(r)  PROVE ServedInv'
    BY <2>2, <1>3, <1>4 DEF PerformRule, StartRule, RejectRule
  <2>3. CASE EndOfRules \/ AllDetected \/ FinishMatch
    BY <2>3, <1>2 DEF EndOfRules, AllDetected, FinishMatch
  <2>4. CASE SkipSearchDir
    BY <2>4 DEF SkipSearchDir, ServedInv
  <2>5. CASE NothingMatched
    BY <2>5, <1>2, <1>4 DEF NothingMatched
  <2>6. CASE PatternMatched
    BY <2>6, <1>2, <1>3, <1>4 DEF PatternMatched, NextPattern
  <2>7. CASE FinishPattern
    BY <2>7, <1>3 DEF FinishPattern, NextPattern
  <2>8. CASE PlaceError
    BY <2>8, <1>4 DEF PlaceError
  <2>9. CASE Place \/ Placed
    BY <2>9, <1>2 DEF Place, Placed
  <2>10. ASSUME NEW e \in FsPath, InstallEntry(e) \/ EntryError(e)  PROVE ServedInv'
    BY <2>10, <1>2, <1>4 DEF InstallEntry, EntryError
  <2>11. ASSUME NEW root \in CheckDirs, Detect(root)  PROVE ServedInv'
    BY <2>11, <1>2 DEF Detect
  <2>12. CASE Ended
    BY <2>12, <1>11 DEF Ended
  <2> QED  BY <1>7, <1>8, <1>9, <1>10, <1>12, <2>1, <2>2, <2>3, <2>4, <2>5, <2>6, <2>7, <2>8, <2>9,
              <2>10, <2>11, <2>12 DEF Next
<1> QED  BY <1>11, <1>12

\* A pattern takes the paths of a package from one search directory only, however
\* many apply to the package (_resolve_path): the first in which it finds anything.
THEOREM OneSearchDirServes == Spec => []OneSearchDirPerPackage
<1>1. Init => TypeInv /\ ServedInv
  <2> SUFFICES ASSUME Init PROVE ServedInv
    BY TypeInit
  <2> QED  BY DEF Init, ServedInv
<1>2. TypeInv /\ ServedInv /\ [Next]_vars => (TypeInv /\ ServedInv)'
  BY TypeStep, ServedStep
<1>3. TypeInv /\ ServedInv => OneSearchDirPerPackage
  <2> SUFFICES ASSUME TypeInv, ServedInv PROVE OneSearchDirPerPackage
    OBVIOUS
  <2>1. DOMAIN matches = 1..Len(matches)
    BY LenProperties DEF TypeInv, TypeOK
  <2> QED  BY <2>1 DEF ServedInv, OneSearchDirPerPackage
<1> QED  BY <1>1, <1>2, <1>3, PTL DEF Spec


-----------------------------------------------------------------------------
(* A reserved directory is reserved with everything in it.                  *)

\* What is in a directory is somebody's, or a discard rule's.
Handled(c) == Claimed(c) \/ discarded[c] \in {"plugin", "manifest"}

Settled(d) == \A c \in Children(d) : Handled(c) \/ c \in work

\* The recursion into a directory is still to come: it is among the matches of the
\* pattern, or the one being placed.
Working == pc \in {"search", "match", "install", "place", "recurse"}
Awaited(d) ==
    /\ rule.type = "install" /\ Working
    /\ (\E i \in 1..Len(matches) : matches[i].path = d) \/ (pc = "place" /\ cur.path = d)

\* Every reserved directory is settled or will be; no rule that reserves is disabled.
CompleteInv ==
    /\ toStage \subseteq Acted
    /\ rule.type = "install" => ~ Disabled
    /\ pc # "failed" => \A d \in FsPath : Claimed(d) => Awaited(d) \/ Settled(d)

\* The manifest's install rules hold and are for packages that are built.
AllEnabled == \A r \in RuleSpace : r.type = "install" => r.holds /\ r.into \cap Acted # {}

\* What is handled stays so.
LEMMA HandledStays ==
    ASSUME ClaimInv, [Next]_vars, NEW c \in FsPath, Handled(c)
    PROVE  Handled(c)'
<1>1. CASE Claimed(c)
  BY <1>1, ClaimsStay DEF Handled, Claimed
<1>2. CASE discarded[c] \in {"plugin", "manifest"}
  BY <1>2, KnownStatesStay DEF Handled
<1> QED  BY <1>1, <1>2 DEF Handled

\* A settled directory stays settled when what leaves the stack gets handled.
LEMMA SettledStays ==
    ASSUME ClaimInv, [Next]_vars, NEW d \in FsPath, Settled(d),
           \A c \in work : c \in work' \/ Handled(c)'
    PROVE  Settled(d)'
<1>1. ASSUME NEW c \in Children(d)  PROVE Handled(c)' \/ c \in work'
  <2>1. c \in FsPath /\ (Handled(c) \/ c \in work)
    BY <1>1 DEF Settled, Children
  <2>2. Handled(c) => Handled(c)'
    BY <2>1, HandledStays
  <2> QED  BY <2>1, <2>2
<1> QED  BY <1>1 DEF Settled

\* What _install_dir_recursively does not put on its stack is handled.
LEMMA LookSettles ==
    ASSUME ClaimInv, [Next]_vars, NEW d \in FsPath, IsPrefix(cur.root, d),
           discarded' = CachedByIsReserved(cur.root, Children(d)),
           Unreserved(d) \subseteq work'
    PROVE  Settled(d)'
<1>1. d \in Seq(STRING) /\ cur.root \in Seq(STRING) /\ Children(d) \in SUBSET FsPath
  BY MatcherTypes, StateFacts, TreeAssumption DEF Children
<1>2. ASSUME NEW c \in Children(d)  PROVE Handled(c)' \/ c \in work'
  <2>1. c \in FsPath /\ IsPrefix(cur.root, c)
    BY <1>1, ChildPrefix
  <2>2. CASE c \in Unreserved(d)
    BY <2>2
  <2>3. CASE Claimed(c)
    BY <2>1, <2>3, HandledStays DEF Handled
  <2>4. CASE ~ Claimed(c) /\ ExcludeState(cur.root, c) # "not"
    <3>1. discarded'[c] = ExcludeState(cur.root, c)
      BY <1>1, <2>1, <2>4, LookFacts
    <3>2. ExcludeState(cur.root, c) \in {"not", "plugin", "manifest"}
      BY <2>1, MatcherTypes, ExcludeStateType
    <3> QED  BY <2>4, <3>1, <3>2 DEF Handled
  <2> QED  BY <2>2, <2>3, <2>4 DEF Unreserved, IsReserved
<1> QED  BY <1>2 DEF Settled

\* A rule with packages is an install rule, and one that is not disabled.
LEMMA EnabledRules ==
    ASSUME AllEnabled, NEW r \in RuleSpace
    PROVE  /\ r.into # {} => r.type = "install"
           /\ r.type = "install" => r.holds /\ r.into \cap Acted # {}
BY RuleAssumption DEF AllEnabled

\* An install rule stays enabled.
LEMMA EnabledStep ==
    ASSUME AllEnabled, TypeInv, CompleteInv, [Next]_vars
    PROVE  toStage' \subseteq Acted /\ (rule'.type = "install" => ~ Disabled')
<1>1. ASSUME toStage' = toStage, rule' = rule
      PROVE  toStage' \subseteq Acted /\ (rule'.type = "install" => ~ Disabled')
  BY <1>1 DEF CompleteInv, Disabled, ActedOn
<1>2. ASSUME NEW pkg \in Package, PerformStaging(pkg)
      PROVE  toStage' \subseteq Acted /\ (rule'.type = "install" => ~ Disabled')
  <2>1. pkg \in Acted /\ toStage' \subseteq Acted /\ rule' = StagingRule(pkg)
    BY <1>2 DEF PerformStaging, StartRule, CompleteInv
  <2>2. StagingRule(pkg).into = {pkg} /\ StagingRule(pkg).holds
    BY DEF StagingRule, InstallKeep, Generic
  <2> QED  BY <2>1, <2>2 DEF Disabled, ActedOn
<1>3. ASSUME NEW r \in RuleSpace, PerformRule(r)
      PROVE  toStage' \subseteq Acted /\ (rule'.type = "install" => ~ Disabled')
  <2>1. toStage' \subseteq Acted /\ rule' = r
    BY <1>3 DEF PerformRule, StartRule, CompleteInv
  <2> QED  BY <2>1, EnabledRules DEF Disabled, ActedOn
<1>4. CASE UNCHANGED vars
  BY <1>1, <1>4 DEF vars, searchVars, manifestVars
<1>5. CASE Next
  <2> USE DEF searchVars, manifestVars
  <2>1. ASSUME NEW r \in RuleSpace, RejectRule(r)  PROVE toStage' = toStage /\ rule' = rule
    BY <2>1 DEF RejectRule, Fail
  <2>2. ASSUME EndOfRules \/ AllDetected \/ FinishMatch \/ Ended \/ SkipSearchDir \/ EnterSearchDir \/ LeaveSearchDir
        PROVE  toStage' = toStage /\ rule' = rule
    BY <2>2 DEF EndOfRules, AllDetected, FinishMatch, Ended, vars, SkipSearchDir, EnterSearchDir, LeaveSearchDir
  <2>3. ASSUME NothingMatched \/ PatternMatched \/ FinishPattern \/ NextMatch
        PROVE  toStage' = toStage /\ rule' = rule
    BY <2>3 DEF NothingMatched, PatternMatched, FinishPattern, NextMatch, Fail
  <2>4. ASSUME PlaceError \/ Place \/ Placed  PROVE toStage' = toStage /\ rule' = rule
    BY <2>4 DEF PlaceError, Place, Placed, Fail
  <2>5. ASSUME NEW e \in FsPath, InstallEntry(e) \/ EntryError(e)  PROVE toStage' = toStage /\ rule' = rule
    BY <2>5 DEF InstallEntry, EntryError, Fail
  <2>6. ASSUME NEW root \in CheckDirs, Detect(root)  PROVE toStage' = toStage /\ rule' = rule
    BY <2>6 DEF Detect
  <2>7. ASSUME NEW p \in FsPath, Match(p)  PROVE toStage' = toStage /\ rule' = rule
    BY <2>7 DEF Match, MatchRootDir, MatchReserved, MatchExcluded, MatchAndReserve, MatchAndExclude, Fail
  <2> QED  BY <1>1, <1>2, <1>3, <1>5, <2>1, <2>2, <2>3, <2>4, <2>5, <2>6, <2>7 DEF Next
<1> QED  BY <1>4, <1>5

\* Every reserved directory keeps being settled or awaited.
Promised == \A d \in FsPath : Claimed(d) => Awaited(d) \/ Settled(d)

\* A step that ends well began well: a failure is final.
LEMMA FailedStays ==
    ASSUME [Next]_vars, pc' # "failed"
    PROVE  pc # "failed"
<1>1. CASE UNCHANGED vars
  BY <1>1 DEF vars
<1>2. CASE Next
  <2> SUFFICES ASSUME pc = "failed" PROVE FALSE
    OBVIOUS
  <2>1. CASE Ended
    BY <2>1 DEF Ended, vars
  <2>2. ~ (\E pkg \in Package : PerformStaging(pkg)) /\ ~ (\E r \in RuleSpace : PerformRule(r) \/ RejectRule(r))
    BY DEF PerformStaging, PerformRule, RejectRule
  <2>3. ~ EndOfRules /\ ~ AllDetected /\ ~ FinishMatch /\ ~ SkipSearchDir /\ ~ EnterSearchDir /\ ~ LeaveSearchDir
    BY DEF EndOfRules, AllDetected, FinishMatch, SkipSearchDir, EnterSearchDir, LeaveSearchDir
  <2>4. ~ NothingMatched /\ ~ PatternMatched /\ ~ FinishPattern /\ ~ NextMatch /\ ~ PlaceError /\ ~ Place /\ ~ Placed
    BY DEF NothingMatched, PatternMatched, FinishPattern, NextMatch, Searched, PlaceError, Place, Placed
  <2>5. ~ (\E e \in FsPath : InstallEntry(e) \/ EntryError(e)) /\ ~ (\E root \in CheckDirs : Detect(root))
    BY DEF InstallEntry, EntryError, Detect
  <2>6. ~ (\E p \in FsPath : Match(p))
    BY DEF Match, MatchRootDir, MatchReserved, MatchExcluded, MatchAndReserve, MatchAndExclude, Yielded
  <2> QED  BY <1>2, <2>1, <2>2, <2>3, <2>4, <2>5, <2>6 DEF Next
<1> QED  BY <1>1, <1>2

\* No step takes what a reserved directory waits for away from it.
LEMMA PromiseStep ==
    ASSUME AllEnabled, ClaimInv, CompleteInv, [Next]_vars, pc' # "failed"
    PROVE  Promised'
<1>0. Promised
  <2>1. pc # "failed"
    BY FailedStays
  <2> QED  BY <2>1 DEF CompleteInv, Promised
<1>1. matches \in Seq(Matched) /\ Len(matches) \in Nat /\ cur.path \in FsPath
  BY MatcherTypes, StateFacts DEF TypeInv, TypeOK
<1>2. ASSUME work \subseteq work', NEW d \in FsPath, Settled(d)  PROVE Settled(d)'
  BY <1>2, SettledStays
<1>3. ASSUME alreadyMatched' = alreadyMatched, work \subseteq work',
             \A d \in FsPath : Awaited(d) => Awaited(d)'
      PROVE  Promised'
  BY <1>0, <1>2, <1>3 DEF Promised, Claimed
<1>4. ASSUME UNCHANGED <<alreadyMatched, work, rule, matches>>, pc # "place" \/ UNCHANGED <<pc, cur>>,
             Working => Working'
      PROVE  Promised'
  BY <1>3, <1>4 DEF Awaited
<1>5. ASSUME UNCHANGED <<alreadyMatched, work>>, \A d \in FsPath : ~ Awaited(d)  PROVE Promised'
  BY <1>3, <1>5
<1>6. ASSUME ~ Working \/ rule.type # "install" \/ (matches = <<>> /\ pc # "place")
      PROVE  \A d \in FsPath : ~ Awaited(d)
  BY <1>6 DEF Awaited, Working
<1>7. ASSUME NEW p \in FsPath, Match(p)  PROVE Promised'
  <2>1. pc = "match"
    BY <1>7 DEF Match, Yielded, MatchRootDir, MatchReserved, MatchExcluded, MatchAndReserve, MatchAndExclude
  <2>2. CASE MatchRootDir(p)
    BY <2>2 DEF MatchRootDir, Fail
  <2>3. CASE MatchReserved(p) \/ MatchExcluded(p)
    BY <2>1, <2>3, <1>4 DEF MatchReserved, MatchExcluded, Fail, placeVars, matcherVars, Working
  <2>4. CASE MatchAndExclude(p)
    <3>1. rule.type # "install"
      <4>1. rule \in Rules /\ rule.into = {}
        BY <2>4, MatcherTypes, StateFacts DEF MatchAndExclude
      <4> QED  BY <4>1, RuleFacts
    <3> QED  BY <1>5, <1>6, <2>4, <3>1 DEF MatchAndExclude, placeVars
  <2>5. CASE MatchAndReserve(p)
    <3> DEFINE m == [path |-> p, root |-> Root, into |-> Applicable]
    <3>1. /\ matches' = Append(matches, m) /\ alreadyMatched' = [alreadyMatched EXCEPT ![p] = Applicable]
          /\ UNCHANGED <<pc, rule, cur, work>>
      BY <2>5 DEF MatchAndReserve, Fail, placeVars
    <3>2. rule.type = "install"
      <4>1. rule.into # {} /\ rule \in Rules
        BY <2>5, MatcherTypes, StateFacts DEF MatchAndReserve
      <4>2. NoRule.into = {}
        BY DEF NoRule
      <4> QED  BY <4>1, <4>2, EnabledRules, StagingRuleType DEF Rules
    <3>3. m.path = p
      OBVIOUS
    <3> HIDE DEF m
    <3>4. /\ Len(matches') = Len(matches) + 1 /\ matches'[Len(matches) + 1] = m
          /\ \A i \in 1..Len(matches) : i \in 1..Len(matches') /\ matches'[i] = matches[i]
          /\ Len(matches) + 1 \in 1..Len(matches')
      BY <1>1, <3>1
    <3>5. \A d \in FsPath : Awaited(d) => Awaited(d)'
      BY <2>1, <3>1, <3>4 DEF Awaited, Working
    <3>6. Awaited(p)'
      BY <2>1, <3>1, <3>2, <3>3, <3>4 DEF Awaited, Working
    <3>7. \A d \in FsPath \ {p} : Claimed(d)' <=> Claimed(d)
      BY <3>1, MatcherTypes DEF Claimed
    <3> QED  BY <1>0, <1>2, <3>1, <3>5, <3>6, <3>7 DEF Promised
  <2> QED  BY <1>7, <2>2, <2>3, <2>4, <2>5 DEF Match
<1>8. CASE NextMatch
  <2>0. PICK n \in Nat : n = Len(matches)
    BY <1>1
  <2>1. /\ matches # <<>> /\ pc = "install" /\ pc' = "place" /\ cur' = Head(matches) /\ matches' = Tail(matches)
        /\ UNCHANGED <<rule, work, alreadyMatched>>
    BY <1>8 DEF NextMatch, matcherVars
  <2>2. cur' = matches[1] /\ Len(matches') = n - 1 /\ \A i \in 1..(n - 1) : matches'[i] = matches[i + 1]
    BY <1>1, <2>0, <2>1, HeadTailProperties
  <2>3. \A i \in 1..n : i = 1 \/ (i - 1 \in 1..(n - 1) /\ matches'[i - 1] = matches[i])
    BY <2>2
  <2>4. ASSUME NEW d \in FsPath, Awaited(d)  PROVE Awaited(d)'
    <3>1. PICK i \in 1..n : matches[i].path = d
      BY <2>0, <2>1, <2>4 DEF Awaited
    <3>2. CASE i = 1
      BY <2>1, <2>2, <2>4, <3>1, <3>2 DEF Awaited, Working
    <3>3. CASE i # 1
      BY <2>1, <2>2, <2>3, <2>4, <3>1, <3>3 DEF Awaited, Working
    <3> QED  BY <3>2, <3>3
  <2> QED  BY <1>3, <2>1, <2>4
<1>9. CASE Placed
  <2>1. /\ pc = "place" /\ pc' \in {"recurse", "install"}
        /\ UNCHANGED <<rule, matches, cur, alreadyMatched>>
    BY <1>9 DEF Placed, searchVars
  <2>2. work = {}
    BY <2>1 DEF ClaimInv, StackInv
  <2>3. Settled(cur.path)'
    <3>1. CASE IsDir(cur.path)
      <4>1. IsPrefix(cur.root, cur.path)
        BY DEF ClaimInv, SearchInv, InView
      <4>2. /\ discarded' = CachedByIsReserved(cur.root, Children(cur.path))
            /\ Unreserved(cur.path) \subseteq work'
        BY <1>9, <3>1 DEF Placed
      <4>3. \A d \in FsPath : d = cur.path => Settled(d)'
        BY <4>1, <4>2, LookSettles
      <4> QED  BY <1>1, <2>1, <4>3
    <3>2. CASE ~ IsDir(cur.path)
      <4>1. Children(cur.path) = {}
        BY <1>1, <3>2, TreeAssumption DEF Children, IsDir
      <4> QED  BY <2>1, <4>1 DEF Settled
    <3> QED  BY <3>1, <3>2
  <2>4. ASSUME NEW d \in FsPath, Claimed(d)'  PROVE Awaited(d)' \/ Settled(d)'
    <3>1. Claimed(d)
      BY <2>1, <2>4 DEF Claimed
    <3>2. CASE Settled(d)
      BY <1>2, <2>2, <3>2
    <3>3. CASE Awaited(d) /\ d # cur.path
      BY <2>1, <3>3 DEF Awaited, Working
    <3>4. CASE d = cur.path
      BY <2>1, <2>3, <3>4
    <3> QED  BY <1>0, <3>1, <3>2, <3>3, <3>4 DEF Promised
  <2> QED  BY <2>4 DEF Promised
<1>10. ASSUME NEW e \in FsPath, InstallEntry(e)  PROVE Promised'
  <2>1. /\ pc = "recurse" /\ e \in work /\ work' = (work \ {e}) \cup Unreserved(e)
        /\ alreadyMatched' = [alreadyMatched EXCEPT ![e] = rule.into]
        /\ discarded' = CachedByIsReserved(cur.root, Children(e))
        /\ UNCHANGED <<pc, rule, matches, cur>>
    BY <1>10 DEF InstallEntry, searchVars
  <2>2. Claimed(e)'
    <3>1. rule \in Rules /\ rule.type = "install"
      BY <2>1, MatcherTypes, StateFacts DEF TypeInv, Scope
    <3>2. rule.into # {}
      BY <3>1, RuleFacts
    <3> QED  BY <2>1, <3>2, MatcherTypes DEF Claimed
  <2>3. Settled(e)'
    BY <2>1, LookSettles DEF ClaimInv, StackInv
  <2>4. \A c \in work : c \in work' \/ Handled(c)'
    BY <2>1, <2>2 DEF Handled
  <2>5. \A d \in FsPath : Settled(d) => Settled(d)'
    BY <2>4, SettledStays
  <2>6. \A d \in FsPath \ {e} : Claimed(d)' <=> Claimed(d)
    BY <2>1, MatcherTypes DEF Claimed
  <2>7. \A d \in FsPath : Awaited(d) => Awaited(d)'
    BY <2>1 DEF Awaited, Working
  <2> QED  BY <1>0, <2>3, <2>5, <2>6, <2>7 DEF Promised
<1>11. CASE PatternMatched
  <2>1. CASE rule.type = "install"
    <3>1. pc = "search" /\ pc' = "install" /\ UNCHANGED <<rule, matches, work, alreadyMatched>>
      BY <1>11, <2>1 DEF PatternMatched, CompleteInv, Fail, Searched, placeVars, matcherVars
    <3> QED  BY <1>4, <3>1 DEF Working
  <2>2. CASE rule.type # "install"
    BY <1>5, <1>6, <1>11, <2>2 DEF PatternMatched, Fail, placeVars, matcherVars
  <2> QED  BY <2>1, <2>2
<1>12. CASE UNCHANGED vars
  BY <1>4, <1>12 DEF vars, searchVars, placeVars, matcherVars, Working
<1>13. CASE Next
  <2> USE DEF searchVars, placeVars, matcherVars
  <2>1. ASSUME NEW pkg \in Package, PerformStaging(pkg)  PROVE Promised'
    BY <1>5, <1>6, <2>1 DEF PerformStaging, StartRule, Working
  <2>2. ASSUME NEW r \in RuleSpace, PerformRule(r)  PROVE Promised'
    BY <1>5, <1>6, <2>2 DEF PerformRule, StartRule, Working
  <2>3. CASE EndOfRules \/ AllDetected
    BY <1>5, <1>6, <2>3 DEF EndOfRules, AllDetected, Working
  <2>4. CASE SkipSearchDir \/ EnterSearchDir \/ LeaveSearchDir \/ FinishMatch
    BY <1>4, <2>4 DEF SkipSearchDir, EnterSearchDir, LeaveSearchDir, FinishMatch, Working
  <2>5. CASE NothingMatched
    BY <1>5, <1>6, <2>5 DEF NothingMatched, Searched, Fail
  <2>6. CASE FinishPattern
    BY <1>5, <1>6, <2>6 DEF FinishPattern
  <2>7. CASE Place
    BY <1>4, <2>7 DEF Place, Working
  <2>8. ASSUME NEW root \in CheckDirs, Detect(root)  PROVE Promised'
    BY <1>5, <1>6, <2>8 DEF Detect, Working
  <2>9. CASE Ended
    BY <1>12, <2>9 DEF Ended
  <2>10. ASSUME NEW r \in RuleSpace, RejectRule(r)  PROVE FALSE
    BY <2>10 DEF RejectRule, Fail
  <2>11. ASSUME NEW e \in FsPath, EntryError(e)  PROVE FALSE
    BY <2>11 DEF EntryError, Fail
  <2>12. CASE PlaceError
    BY <2>12 DEF PlaceError, Fail
  <2> QED  BY <1>7, <1>8, <1>9, <1>10, <1>11, <1>13, <2>1, <2>2, <2>3, <2>4, <2>5, <2>6, <2>7,
              <2>8, <2>9, <2>10, <2>11, <2>12 DEF Next
<1> QED  BY <1>12, <1>13

\* The strengthening of ClaimedDirIsComplete is inductive.
LEMMA CompleteStep ==
    ASSUME AllEnabled, ClaimInv, CompleteInv, [Next]_vars
    PROVE  CompleteInv'
<1>1. toStage' \subseteq Acted /\ (rule'.type = "install" => ~ Disabled')
  BY EnabledStep, MatcherTypes
<1>2. pc' # "failed" => Promised'
  BY PromiseStep
<1> QED  BY <1>1, <1>2 DEF CompleteInv, Promised

\* Between two rules nothing is awaited and the stack is empty, so whoever has a
\* directory has, or has lost to an earlier rule or a discard, each entry of it: no
\* later rule takes a part of it.  A disabled rule reserves a directory and does not
\* descend into it, hence the hypothesis.
THEOREM ReservedDirsAreComplete == AllEnabled => (Spec => []ClaimedDirIsComplete)
<1> SUFFICES ASSUME AllEnabled PROVE Spec => []ClaimedDirIsComplete
  OBVIOUS
<1>1. Init => CompleteInv
  <2> SUFFICES ASSUME Init PROVE CompleteInv
    OBVIOUS
  <2>1. rule.type = "none" /\ toStage \subseteq Acted /\ \A d \in FsPath : ~ Claimed(d)
    BY DEF Init, NoRule, Claimed
  <2> QED  BY <2>1 DEF CompleteInv
<1>2. ClaimInv /\ CompleteInv /\ [Next]_vars => CompleteInv'
  BY CompleteStep
<1>3. ClaimInv /\ CompleteInv => ClaimedDirIsComplete
  <2> SUFFICES ASSUME ClaimInv, CompleteInv, pc = "rules",
                      NEW d \in FsPath, NEW i \in DOMAIN dirs, Claimed(d), IsPrefix(dirs[i].root, d),
                      NEW c \in Children(d)
               PROVE  IsReserved(dirs[i].root, c)
    BY DEF ClaimedDirIsComplete
  <2>1. dirs[i].root \in Seq(STRING)
    <3>1. dirs \in Dirs
      BY MatcherTypes DEF TypeInv, TypeOK
    <3>2. dirs[i] \in [root : Seq(STRING), appliesTo : SUBSET Package]
      BY <3>1, ElementOfSeq, LenProperties DEF Dirs
    <3> QED  BY <3>2
  <2>2. c \in FsPath /\ IsPrefix(dirs[i].root, c)
    BY <2>1, ChildPrefix, TreeAssumption
  <2>3. Handled(c)
    BY DEF CompleteInv, Awaited, Working, Settled, ClaimInv, StackInv
  <2>4. ASSUME discarded[c] \in {"plugin", "manifest"}  PROVE ExcludeState(dirs[i].root, c) # "not"
    <3>1. c \in Chain(dirs[i].root, c)
      BY <2>1, <2>2, SelfInChain
    <3>2. ExcludeState(dirs[i].root, c) = discarded[c]
      BY <2>2, <2>4, <3>1, KnownStateStands
    <3> QED  BY <2>4, <3>2
  <2> QED  BY <2>3, <2>4 DEF Handled, IsReserved
<1>4. Spec => []CompleteInv
  BY <1>1, <1>2, ClaimsAlwaysHold, PTL DEF Spec
<1> QED  BY <1>3, <1>4, ClaimsAlwaysHold, PTL

-----------------------------------------------------------------------------
(* What is reserved gets into the package.                                  *)

\* A parent of a path has the first of its names.
LEMMA PrefixIs ==
    ASSUME NEW a \in Seq(STRING), NEW b \in Seq(STRING)
    PROVE  IsPrefix(a, b) <=> Len(a) <= Len(b) /\ \A i \in 1..Len(a) : a[i] = b[i]
<1> DEFINE l == Len(a)
<1>1. l \in Nat /\ Len(b) \in Nat
  BY LenProperties
<1>2. SUFFICES ASSUME l <= Len(b)
               PROVE  SubSeq(a, 1, l) = SubSeq(b, 1, l) <=> \A i \in 1..l : a[i] = b[i]
  BY DEF IsPrefix
<1>3. SubSeq(a, 1, l) = a
  BY SubSeqFull
<1>4. SubSeq(b, 1, l) \in Seq(STRING) /\ Len(SubSeq(b, 1, l)) = l
      /\ \A i \in 1..l : SubSeq(b, 1, l)[i] = b[i]
  <2>1. \A i \in 1..l : b[i] \in STRING
    BY <1>1, <1>2, ElementOfSeq
  <2> QED  BY <1>1, <1>2, <2>1
<1>5. ASSUME \A i \in 1..l : a[i] = b[i]  PROVE SubSeq(b, 1, l) = a
  <2> DEFINE s == SubSeq(b, 1, l)
  <2>1. s \in Seq(STRING) /\ Len(s) = Len(a) /\ \A i \in 1..Len(a) : s[i] = a[i]
    BY <1>4, <1>5
  <2> HIDE DEF s
  <2>2. s = a
    BY <2>1, SeqEqual
  <2> QED  BY <2>2 DEF s
<1> QED  BY <1>3, <1>4, <1>5

\* What iterdir goes up to: one name less.
LEMMA ParentFacts ==
    ASSUME NEW p \in Seq(STRING), p # <<>>
    PROVE  /\ Parent(p) \in Seq(STRING) /\ Len(Parent(p)) = Len(p) - 1 /\ Len(p) \in Nat \ {0}
           /\ IsPrefix(Parent(p), p) /\ Parent(p) # p
           /\ \A y \in Seq(STRING) : IsPrefix(y, p) /\ y # p => IsPrefix(y, Parent(p))
<1> DEFINE f == Parent(p)
<1>1. Len(p) \in Nat \ {0}
  BY EmptySeq, LenProperties
<1>2. f \in Seq(STRING) /\ Len(f) = Len(p) - 1 /\ \A i \in 1..(Len(p) - 1) : f[i] = p[i]
  <2> DEFINE l == Len(p) - 1
             s == SubSeq(p, 1, l)
  <2>1. l \in Nat /\ Len(p) = l + 1 /\ \A i \in 1..l : p[i] \in STRING
    BY <1>1, ElementOfSeq
  <2>2. s = f
    BY DEF Parent, Front
  <2> HIDE DEF l
  <2>3. s \in Seq(STRING) /\ Len(s) = l /\ \A i \in 1..l : s[i] = p[i]
    BY <2>1
  <2> QED  BY <2>2, <2>3 DEF l
<1> HIDE DEF f
<1>3. IsPrefix(f, p)
  BY <1>1, <1>2, PrefixIs
<1>4. f # p
  BY <1>1, <1>2
<1>5. ASSUME NEW y \in Seq(STRING), IsPrefix(y, p), y # p  PROVE IsPrefix(y, f)
  <2>1. Len(y) \in Nat /\ Len(y) <= Len(p) /\ Len(y) # Len(p)
    BY <1>5, SamePrefix, LenProperties DEF IsPrefix
  <2>2. Len(y) <= Len(f)
    BY <1>1, <1>2, <2>1
  <2> QED  BY <1>2, <1>3, <1>5, <2>2, PrefixesOrdered
<1> QED  BY <1>1, <1>2, <1>3, <1>4, <1>5 DEF f

\* Everything above a path that exists is a directory.
LEMMA DirsAbove ==
    ASSUME NEW q \in FsPath, NEW y \in Seq(STRING), IsPrefix(y, q), y # q
    PROVE  y \in FsPath /\ IsDir(y)
<1> DEFINE R == OpToRel(<, Nat)
           Z == {z \in FsPath : IsPrefix(y, z) /\ y # z}
           T == {Len(z) : z \in Z}
<1>1. IsWellFoundedOn(R, Nat)
  BY NatLessThanWellFounded
<1>2. FsPath \subseteq Seq(STRING)
  BY TreeAssumption
<1>3. T \subseteq Nat /\ T # {}
  <2>1. q \in Z /\ Len(q) \in T
    OBVIOUS
  <2> QED  BY <1>2, <2>1, LenProperties
<1>4. PICK n \in T : \A m \in T : ~ (<<m, n>> \in R)
  <2> HIDE DEF R, T
  <2> QED  BY <1>1, <1>3, WFMin
<1>5. \A m \in T : ~ (m < n)
  BY <1>3, <1>4 DEF OpToRel
<1>6. PICK z \in Z : n = Len(z)
  BY <1>4
<1>7. z \in Seq(STRING) /\ z \in FsPath /\ IsPrefix(y, z) /\ y # z
  BY <1>2, <1>6
<1>8. z # <<>>
  <2> SUFFICES ASSUME z = <<>> PROVE FALSE
    OBVIOUS
  <2>1. Len(z) = 0 /\ Len(y) \in Nat
    BY EmptySeq, LenProperties
  <2>2. Len(y) = Len(z)
    BY <1>7, <2>1 DEF IsPrefix
  <2> QED  BY <1>7, <2>2, SamePrefix
<1>9. /\ Parent(z) \in FsPath /\ KindOf[Parent(z)] = "dir" /\ Parent(z) \in Seq(STRING)
      /\ Len(Parent(z)) = Len(z) - 1 /\ IsPrefix(y, Parent(z)) /\ Len(z) \in Nat
  BY <1>7, <1>8, ParentFacts, TreeAssumption
<1>10. Parent(z) = y
  <2> SUFFICES ASSUME Parent(z) # y PROVE FALSE
    OBVIOUS
  <2>1. Len(Parent(z)) \in T
    BY <1>9
  <2> HIDE DEF T
  <2> QED  BY <1>5, <1>6, <1>9, <2>1
<1> QED  BY <1>9, <1>10 DEF IsDir

\* A path is its root and what is relative to it.
LEMMA RelativeFacts ==
    ASSUME NEW r \in Seq(STRING), NEW p \in Seq(STRING), IsPrefix(r, p)
    PROVE  /\ Relative(r, p) \in Seq(STRING) /\ Len(Relative(r, p)) = Len(p) - Len(r)
           /\ \A i \in 1..(Len(p) - Len(r)) : Relative(r, p)[i] = p[Len(r) + i]
           /\ r \o Relative(r, p) = p
           /\ Relative(r, p) = <<>> => p = r
<1> DEFINE a == Len(r)
           b == Len(p)
           s == SubSeq(p, a + 1, b)
<1>1. a \in Nat /\ b \in Nat /\ a <= b /\ \A i \in 1..a : r[i] = p[i]
  BY PrefixIs, LenProperties
<1>2. \A i \in 1..b : p[i] \in STRING
  BY ElementOfSeq
<1>3. s \in Seq(STRING) /\ Len(s) = b - a /\ \A i \in 1..(b - a) : s[i] = p[a + i]
  <2> HIDE DEF a, b
  <2>1. \A i \in (a + 1)..b : p[i] \in STRING
    BY <1>1, <1>2
  <2> QED  BY <1>1, <2>1
<1>4. s = Relative(r, p)
  BY DEF Relative
<1> HIDE DEF s
<1> DEFINE j == r \o s
<1>5. j \in Seq(STRING) /\ Len(j) = a + (b - a)
      /\ \A i \in 1..(a + (b - a)) : j[i] = IF i <= a THEN r[i] ELSE s[i - a]
  BY <1>3
<1> HIDE DEF j
<1>6. Len(j) = Len(p) /\ \A i \in 1..Len(p) : j[i] = p[i]
  <2>1. a + (b - a) = b
    BY <1>1
  <2>2. ASSUME NEW i \in 1..b  PROVE j[i] = p[i]
    <3> HIDE DEF a, b
    <3>1. CASE i <= a
      BY <1>1, <1>5, <2>1, <3>1
    <3>2. CASE ~ (i <= a)
      <4>1. i - a \in 1..(b - a) /\ a + (i - a) = i
        BY <1>1, <3>2
      <4>2. s[i - a] = p[i]
        BY <1>3, <4>1
      <4>3. j[i] = s[i - a]
        BY <1>5, <2>1, <3>2
      <4> QED  BY <4>2, <4>3
    <3> QED  BY <3>1, <3>2
  <2> QED  BY <1>5, <2>1, <2>2
<1>7. j = p
  BY <1>5, <1>6, SeqEqual
<1>8. s = <<>> => p = r
  <2> SUFFICES ASSUME s = <<>> PROVE p = r
    OBVIOUS
  <2>1. b - a = 0
    BY <1>3, EmptySeq
  <2>2. Len(r) = Len(p)
    BY <1>1, <2>1
  <2> QED  BY <2>2, SamePrefix
<1> QED  BY <1>3, <1>4, <1>7, <1>8 DEF j

\* The way from r to p leads through what lies between them.
LEMMA RelativeJoin ==
    ASSUME NEW r \in Seq(STRING), NEW d \in Seq(STRING), NEW p \in Seq(STRING),
           IsPrefix(r, d), IsPrefix(d, p)
    PROVE  Relative(r, d) \o Relative(d, p) = Relative(r, p)
<1> DEFINE a == Len(r)
           b == Len(d)
           c == Len(p)
           x == Relative(r, d)
           y == Relative(d, p)
           z == Relative(r, p)
           j == x \o y
<1>1. IsPrefix(r, p)
  BY PrefixTransitive
<1>2. a \in Nat /\ b \in Nat /\ c \in Nat /\ a <= b /\ b <= c /\ \A i \in 1..b : d[i] = p[i]
  BY PrefixIs, LenProperties
<1>3. /\ x \in Seq(STRING) /\ Len(x) = b - a /\ \A i \in 1..(b - a) : x[i] = d[a + i]
      /\ y \in Seq(STRING) /\ Len(y) = c - b /\ \A i \in 1..(c - b) : y[i] = p[b + i]
      /\ z \in Seq(STRING) /\ Len(z) = c - a /\ \A i \in 1..(c - a) : z[i] = p[a + i]
  BY <1>1, RelativeFacts
<1> HIDE DEF a, b, c, x, y, z
<1>4. j \in Seq(STRING) /\ Len(j) = (b - a) + (c - b)
      /\ \A i \in 1..((b - a) + (c - b)) : j[i] = IF i <= b - a THEN x[i] ELSE y[i - (b - a)]
  <2>0. x \in Seq(STRING) /\ y \in Seq(STRING)
    BY <1>3
  <2>1. /\ j \in Seq(STRING) /\ Len(j) = Len(x) + Len(y)
        /\ \A i \in 1..(Len(x) + Len(y)) : j[i] = IF i <= Len(x) THEN x[i] ELSE y[i - Len(x)]
    BY <2>0
  <2> HIDE DEF j
  <2> QED  BY <1>3, <2>1
<1> HIDE DEF j
<1>5. (b - a) + (c - b) = c - a
  BY <1>2
<1>6. ASSUME NEW i \in 1..(c - a)  PROVE j[i] = z[i]
  <2>1. CASE i <= b - a
    <3>1. a + i \in 1..b /\ i \in 1..(b - a)
      BY <1>2, <2>1
    <3> QED  BY <1>2, <1>3, <1>4, <1>5, <2>1, <3>1
  <2>2. CASE ~ (i <= b - a)
    <3>1. i - (b - a) \in 1..(c - b) /\ b + (i - (b - a)) = a + i
      BY <1>2, <2>2
    <3>2. y[i - (b - a)] = p[a + i]
      BY <1>3, <3>1
    <3> QED  BY <1>3, <1>4, <1>5, <2>2, <3>2
  <2> QED  BY <2>1, <2>2
<1>7. j = z
  BY <1>3, <1>4, <1>5, <1>6, SeqEqual
<1> QED  BY <1>7 DEF j, x, y, z

\* A path relative to r, from r, is that path; what is above it is above.
LEMMA JoinFacts ==
    ASSUME NEW r \in Seq(STRING), NEW x \in Seq(STRING)
    PROVE  /\ r \o x \in Seq(STRING) /\ IsPrefix(r, r \o x) /\ Relative(r, r \o x) = x
           /\ \A y \in Seq(STRING) : IsPrefix(y, x) => IsPrefix(r \o y, r \o x)
           /\ \A y \in Seq(STRING) : r \o y = r \o x => y = x
<1> DEFINE a == Len(r)
<1>1. \A y \in Seq(STRING) :
          /\ r \o y \in Seq(STRING) /\ Len(r \o y) = a + Len(y) /\ Len(y) \in Nat /\ a \in Nat
          /\ \A i \in 1..(a + Len(y)) : (r \o y)[i] = IF i <= a THEN r[i] ELSE y[i - a]
  OBVIOUS
<1>2. \A y \in Seq(STRING) : \A i \in 1..Len(y) : (r \o y)[a + i] = y[i]
  OBVIOUS
<1>3. ASSUME NEW y \in Seq(STRING)  PROVE IsPrefix(r, r \o y)
  <2> DEFINE s == r \o y
  <2>1. /\ s \in Seq(STRING) /\ Len(s) = a + Len(y) /\ Len(y) \in Nat /\ a \in Nat
        /\ \A i \in 1..(a + Len(y)) : s[i] = IF i <= a THEN r[i] ELSE y[i - a]
    BY <1>1
  <2> HIDE DEF s
  <2>2. a <= Len(s) /\ \A i \in 1..a : r[i] = s[i]
    <3> HIDE DEF a
    <3> QED  BY <2>1
  <2>3. IsPrefix(r, s)
    BY <2>1, <2>2, PrefixIs
  <2> QED  BY <2>3 DEF s
<1>4. ASSUME NEW y \in Seq(STRING), r \o y = r \o x  PROVE y = x
  <2>1. Len(y) = Len(x)
    <3>1. a + Len(y) = a + Len(x) /\ Len(y) \in Nat /\ Len(x) \in Nat /\ a \in Nat
      BY <1>1, <1>4
    <3> HIDE DEF a
    <3> QED  BY <3>1
  <2>2. \A i \in 1..Len(x) : y[i] = x[i]
    BY <1>2, <1>4, <2>1
  <2> QED  BY <2>1, <2>2, SeqEqual
<1>5. Relative(r, r \o x) = x
  <2>1. r \o Relative(r, r \o x) = r \o x /\ Relative(r, r \o x) \in Seq(STRING)
    BY <1>1, <1>3, RelativeFacts
  <2> DEFINE y == Relative(r, r \o x)
  <2>2. y \in Seq(STRING) /\ r \o y = r \o x
    BY <2>1
  <2> HIDE DEF y
  <2>3. y = x
    BY <1>4, <2>2
  <2> QED  BY <2>3 DEF y
<1>6. ASSUME NEW y \in Seq(STRING), IsPrefix(y, x)  PROVE IsPrefix(r \o y, r \o x)
  <2> DEFINE s == r \o y
             t == r \o x
  <2>1. Len(y) <= Len(x) /\ \A i \in 1..Len(y) : y[i] = x[i]
    BY <1>6, PrefixIs
  <2>2. /\ s \in Seq(STRING) /\ Len(s) = a + Len(y) /\ Len(y) \in Nat /\ a \in Nat
        /\ t \in Seq(STRING) /\ Len(t) = a + Len(x) /\ Len(x) \in Nat
        /\ \A i \in 1..(a + Len(y)) : s[i] = IF i <= a THEN r[i] ELSE y[i - a]
        /\ \A i \in 1..(a + Len(x)) : t[i] = IF i <= a THEN r[i] ELSE x[i - a]
    BY <1>1
  <2> HIDE DEF s, t, a
  <2>3. Len(s) <= Len(t)
    BY <2>1, <2>2
  <2>4. ASSUME NEW i \in 1..Len(s)  PROVE s[i] = t[i]
    <3>1. i \in 1..(a + Len(y)) /\ i \in 1..(a + Len(x)) /\ (~ (i <= a) => i - a \in 1..Len(y))
      BY <2>1, <2>2
    <3> QED  BY <2>1, <2>2, <3>1
  <2>5. IsPrefix(s, t)
    BY <2>2, <2>3, <2>4, PrefixIs
  <2> QED  BY <2>5 DEF s, t
<1> QED  BY <1>1, <1>3, <1>4, <1>5, <1>6

\* The directories mkdirs makes are those above, and the directory itself.
LEMMA PrefixesAre ==
    ASSUME NEW p \in Seq(STRING)
    PROVE  Prefixes(p) = {y \in Seq(STRING) : IsPrefix(y, p)}
<1>1. ASSUME NEW y \in Seq(STRING), IsPrefix(y, p)  PROVE y \in Prefixes(p)
  <2>1. y = SubSeq(p, 1, Len(y)) /\ Len(y) \in 0..Len(p)
    BY <1>1, SubSeqFull, LenProperties DEF IsPrefix
  <2> QED  BY <2>1 DEF Prefixes
<1>2. ASSUME NEW l \in 0..Len(p)  PROVE SubSeq(p, 1, l) \in Seq(STRING) /\ IsPrefix(SubSeq(p, 1, l), p)
  <2> DEFINE s == SubSeq(p, 1, l)
  <2>1. Len(p) \in Nat /\ l \in Nat /\ l <= Len(p) /\ \A i \in 1..l : p[i] \in STRING
    BY ElementOfSeq, LenProperties
  <2>2. s \in Seq(STRING) /\ Len(s) = l /\ \A i \in 1..l : s[i] = p[i]
    BY <2>1
  <2> HIDE DEF s
  <2>3. IsPrefix(s, p)
    BY <2>1, <2>2, PrefixIs
  <2> QED  BY <2>2, <2>3 DEF s
<1>3. \A y \in Prefixes(p) : y \in Seq(STRING) /\ IsPrefix(y, p)
  BY <1>2 DEF Prefixes
<1> QED  BY <1>1, <1>3

\* Install rules keep the paths they find in the one search directory there is,
\* which is for every package; none of them is disabled, and there are no staging
\* directories.
KeepsPaths ==
    /\ AllEnabled
    /\ \A r \in RuleSpace : r.type = "install" => r.dests = <<Keep>>
    /\ Len(SearchDirs) = 1 /\ Package \subseteq SearchDirs[1].appliesTo
    /\ DOMAIN StagingRoot \cap Acted = {}

Top == SearchDirs[1].root

\* Where p is in the packages it is reserved for.
Rel(p) == Relative(Top, p)

\* What is in a package is, under its relative path, what is in the search
\* directory, with all directories above it.
Mirrors(t) ==
    /\ <<>> \in DOMAIN t /\ t[<<>>].kind = "dir"
    /\ DOMAIN t \subseteq Seq(STRING)
    /\ \A x \in DOMAIN t \ {<<>>} : Top \o x \in FsPath /\ t[x].kind = KindOf[Top \o x]
    /\ \A x \in DOMAIN t, y \in Seq(STRING) : IsPrefix(y, x) => y \in DOMAIN t

\* A match that all packages of the rule have reserved.
Kept(m, r, claims) ==
    /\ m.root = Top /\ m.path # Top
    /\ m.into = r.into /\ m.into = claims[m.path]

InPlace(pkg, p) == Rel(p) \in DOMAIN fs[pkg] /\ fs[pkg][Rel(p)].src = p

\* The file is among the matches, or the one to be placed next.
Due(p) ==
    /\ rule.type = "install" /\ Working
    /\ \/ \E i \in 1..Len(matches) : matches[i].path = p
       \/ pc = "place" /\ dest = 1 /\ cur.path = p

Arrived ==
    \A p \in FsPath : ~ IsDir(p) =>
        \A pkg \in alreadyMatched[p] : InPlace(pkg, p) \/ Due(p)

\* The rules at work keep paths, and every match is for all packages of its rule.
MatchedInv ==
    /\ toStage = {}
    /\ rule.type = "install" => rule.dests = <<Keep>>
    /\ Working => dirs = SearchDirs
    /\ (pc = "search" /\ sd = 1) \/ pc = "match" => missing = rule.into
    /\ rule.type = "install" /\ Working => \A i \in 1..Len(matches) : Kept(matches[i], rule, alreadyMatched)
    /\ pc \in {"place", "recurse"} => Kept(cur, rule, alreadyMatched)
    /\ \A p \in FsPath : Claimed(p) => IsPrefix(Top, p)

\* The packages have what the search directory has, and directories before what
\* is in them.
MirrorInv ==
    /\ \A pkg \in Package : Mirrors(fs[pkg])
    /\ pc = "place" /\ dest > 1 => \A pkg \in cur.into : Rel(cur.path) \in DOMAIN fs[pkg]
    /\ pc = "recurse" =>
           \A e \in work :
               /\ IsPrefix(cur.path, e) /\ e # Top
               /\ \A pkg \in cur.into : Parent(Rel(e)) \in DOMAIN fs[pkg]

ArrivedInv == pc # "failed" => Arrived

\* The path of an entry in the package is below that of its directory.
LEMMA RelOfChild ==
    ASSUME NEW r \in Seq(STRING), NEW d \in FsPath, NEW e \in Children(d), IsPrefix(r, d)
    PROVE  /\ IsPrefix(r, e) /\ e # r /\ IsPrefix(d, e) /\ e \in FsPath
           /\ Relative(r, d) = Parent(Relative(r, e))
<1>1. /\ d \in Seq(STRING) /\ e \in Seq(STRING) /\ e \in FsPath /\ IsPrefix(d, e) /\ IsPrefix(r, e)
      /\ Len(e) = Len(d) + 1 /\ Len(d) \in Nat /\ Len(r) \in Nat
  BY ChildPrefix, LenProperties, TreeAssumption
<1>2. e # r
  BY <1>1 DEF IsPrefix
<1> DEFINE z == Relative(r, e)
           y == Parent(z)
<1>3. z \in Seq(STRING) /\ r \o z = e /\ z # <<>> /\ Len(z) = Len(e) - Len(r)
  BY <1>1, <1>2, RelativeFacts
<1>4. y \in Seq(STRING) /\ Len(y) = Len(z) - 1
  BY <1>3, ParentFacts
<1>5. IsPrefix(y, z)
  BY <1>3, ParentFacts
<1> HIDE DEF z
<1>6. IsPrefix(r \o y, r \o z) /\ r \o y \in Seq(STRING) /\ Relative(r, r \o y) = y
  BY <1>3, <1>4, <1>5, JoinFacts
<1>7. Len(r \o y) = Len(d)
  <2>1. Len(r \o y) = Len(r) + Len(y)
    BY <1>4
  <2> HIDE DEF y
  <2> QED  BY <1>1, <1>3, <1>4, <2>1
<1> DEFINE q == r \o y
<1>8. q \in Seq(STRING) /\ IsPrefix(q, e) /\ Len(q) = Len(d) /\ Relative(r, q) = y
  BY <1>3, <1>6, <1>7
<1> HIDE DEF q, y
<1>9. IsPrefix(q, d)
  BY <1>1, <1>8, PrefixesOrdered
<1>10. q = d
  BY <1>1, <1>8, <1>9, SamePrefix
<1> QED  BY <1>1, <1>2, <1>8, <1>10 DEF y, z

\* What stands at a path of a package that mirrors the search directory.
LEMMA MirrorFacts ==
    ASSUME NEW t, Top \in Seq(STRING), Mirrors(t), NEW p \in FsPath, IsPrefix(Top, p), p # Top
    PROVE  LET d == Rel(p)
           IN  /\ d \in Seq(STRING) /\ d # <<>> /\ Top \o d = p
               /\ d \in DOMAIN t => t[d].kind = KindOf[p]
               /\ \A x \in Seq(STRING) : IsPrefix(x, d) /\ x # d =>
                      IsPrefix(x, Parent(d)) /\ Top \o x \in FsPath /\ KindOf[Top \o x] = "dir"
               /\ \A x \in DOMAIN t : IsPrefix(d, x) /\ x # d =>
                      d \in DOMAIN t /\ IsDir(p)
<1> DEFINE d == Rel(p)
<1>1. p \in Seq(STRING) /\ d \in Seq(STRING) /\ d # <<>> /\ Top \o d = p
  BY RelativeFacts, TreeAssumption DEF Rel
<1> HIDE DEF d
<1>2. d \in DOMAIN t => t[d].kind = KindOf[p]
  BY <1>1 DEF Mirrors
<1>3. ASSUME NEW x \in Seq(STRING), IsPrefix(x, d), x # d
      PROVE  IsPrefix(x, Parent(d)) /\ Top \o x \in FsPath /\ KindOf[Top \o x] = "dir"
  <2>1. IsPrefix(x, Parent(d))
    BY <1>1, <1>3, ParentFacts
  <2>2. IsPrefix(Top \o x, p) /\ Top \o x # p /\ Top \o x \in Seq(STRING)
    BY <1>1, <1>3, JoinFacts
  <2> DEFINE q == Top \o x
  <2> HIDE DEF q
  <2>3. q \in FsPath /\ IsDir(q)
    BY <2>2, DirsAbove DEF q
  <2> QED  BY <2>1, <2>3 DEF q, IsDir
<1>4. ASSUME NEW x \in DOMAIN t, IsPrefix(d, x), x # d  PROVE d \in DOMAIN t /\ IsDir(p)
  <2>1. d \in DOMAIN t /\ x \in Seq(STRING)
    BY <1>1, <1>4 DEF Mirrors
  <2>2. x # <<>>
    <3> SUFFICES ASSUME x = <<>> PROVE FALSE
      OBVIOUS
    <3>1. Len(d) <= 0 /\ Len(d) \in Nat
      BY <1>1, <1>4, EmptySeq, LenProperties DEF IsPrefix
    <3> QED  BY <1>1, <3>1, EmptySeq
  <2>3. Top \o x \in FsPath
    BY <2>2 DEF Mirrors
  <2>4. IsPrefix(Top \o d, Top \o x) /\ Top \o d # Top \o x
    BY <1>1, <1>4, <2>1, JoinFacts
  <2> DEFINE q == Top \o x
  <2>5. q \in FsPath /\ IsPrefix(p, q) /\ p # q
    BY <1>1, <2>3, <2>4
  <2> HIDE DEF q
  <2> QED  BY <1>1, <2>1, <2>5, DirsAbove
<1> QED  BY <1>1, <1>2, <1>3, <1>4 DEF d

\* p has got into the package: it is there, and nothing that was there is not.
Took(t, u, p) ==
    /\ Mirrors(u)
    /\ DOMAIN t \subseteq DOMAIN u
    /\ Rel(p) \in DOMAIN u /\ (~ IsDir(p) => u[Rel(p)].src = p)
    /\ \A x \in DOMAIN t : x # Rel(p) => u[x] = t[x]

\* A package that gets one more entry, whose directory is there, mirrors the
\* search directory as before.
LEMMA EntryTakes ==
    ASSUME NEW t, Top \in Seq(STRING), Mirrors(t), NEW p \in FsPath, IsPrefix(Top, p), p # Top,
           Parent(Rel(p)) \in DOMAIN t, NEW u, DOMAIN u = DOMAIN t \cup {Rel(p)},
           u[Rel(p)] = [kind |-> KindOf[p], src |-> p],
           \A x \in DOMAIN t : x # Rel(p) => u[x] = t[x]
    PROVE  Took(t, u, p)
<1> DEFINE d == Rel(p)
<1>1. /\ d \in Seq(STRING) /\ d # <<>> /\ Top \o d = p
      /\ \A x \in Seq(STRING) : IsPrefix(x, d) /\ x # d => IsPrefix(x, Parent(d))
  BY MirrorFacts
<1>2. /\ Parent(d) \in DOMAIN t /\ DOMAIN u = DOMAIN t \cup {d}
      /\ u[d].kind = KindOf[p] /\ u[d].src = p
      /\ \A x \in DOMAIN t : x # d => u[x] = t[x]
  OBVIOUS
<1> HIDE DEF d
<1>3. /\ <<>> \in DOMAIN t /\ t[<<>>].kind = "dir" /\ DOMAIN t \subseteq Seq(STRING)
      /\ \A x \in DOMAIN t \ {<<>>} : Top \o x \in FsPath /\ t[x].kind = KindOf[Top \o x]
      /\ \A x \in DOMAIN t, y \in Seq(STRING) : IsPrefix(y, x) => y \in DOMAIN t
  BY DEF Mirrors
<1>4. ASSUME NEW x \in DOMAIN u, NEW y \in Seq(STRING), IsPrefix(y, x)  PROVE y \in DOMAIN u
  <2>1. CASE x \in DOMAIN t
    BY <1>2, <1>3, <1>4, <2>1
  <2>2. CASE x = d /\ y # d
    BY <1>1, <1>2, <1>3, <1>4, <2>2
  <2>3. CASE y = d
    BY <1>2, <2>3
  <2> QED  BY <1>2, <2>1, <2>2, <2>3
<1>5. \A x \in DOMAIN u \ {<<>>} : Top \o x \in FsPath /\ u[x].kind = KindOf[Top \o x]
  BY <1>1, <1>2, <1>3
<1>6. <<>> \in DOMAIN u /\ u[<<>>].kind = "dir" /\ DOMAIN u \subseteq Seq(STRING)
  BY <1>1, <1>2, <1>3
<1>7. Mirrors(u)
  BY <1>4, <1>5, <1>6 DEF Mirrors
<1> QED  BY <1>2, <1>7 DEF Took, d

\* mkdirs makes the directories that the search directory has there.
LEMMA MkdirsMirrors ==
    ASSUME NEW t, Top \in Seq(STRING), Mirrors(t), NEW p \in FsPath, IsPrefix(Top, p), p # Top
    PROVE  LET m == Mkdirs(t, Parent(Rel(p)))
           IN  /\ Mirrors(m) /\ DOMAIN t \subseteq DOMAIN m /\ Parent(Rel(p)) \in DOMAIN m
               /\ \A x \in DOMAIN t : m[x] = t[x]
               /\ Rel(p) \in DOMAIN m => Rel(p) \in DOMAIN t
<1> DEFINE d == Rel(p)
           c == Parent(d)
           m == Mkdirs(t, c)
<1>1. /\ d \in Seq(STRING) /\ d # <<>> /\ Top \o d = p
      /\ \A x \in Seq(STRING) : IsPrefix(x, d) /\ x # d =>
             IsPrefix(x, Parent(d)) /\ Top \o x \in FsPath /\ KindOf[Top \o x] = "dir"
  BY MirrorFacts
<1> HIDE DEF d
<1>2. c \in Seq(STRING) /\ IsPrefix(c, d) /\ c # d /\ Len(c) = Len(d) - 1 /\ Len(d) \in Nat \ {0}
  BY <1>1, ParentFacts
<1> HIDE DEF c
<1>3. Prefixes(c) = {y \in Seq(STRING) : IsPrefix(y, c)}
  BY <1>2, PrefixesAre
<1>4. ASSUME NEW y \in Prefixes(c)
      PROVE  y \in Seq(STRING) /\ IsPrefix(y, d) /\ y # d /\ Top \o y \in FsPath /\ KindOf[Top \o y] = "dir"
  <2>1. y \in Seq(STRING) /\ IsPrefix(y, c) /\ Len(y) <= Len(c) /\ Len(y) \in Nat
    BY <1>3, LenProperties DEF IsPrefix
  <2>2. IsPrefix(y, d)
    BY <1>1, <1>2, <2>1, PrefixTransitive
  <2>3. y # d
    BY <1>2, <2>1
  <2> QED  BY <1>1, <2>1, <2>2, <2>3
<1>5. /\ DOMAIN m = DOMAIN t \cup Prefixes(c)
      /\ \A x \in DOMAIN t : m[x] = t[x]
      /\ \A x \in Prefixes(c) \ DOMAIN t : m[x].kind = "dir"
  BY DEF Mkdirs, Present
<1> HIDE DEF m
<1>6. c \in DOMAIN m
  <2>1. IsPrefix(c, c)
    BY <1>2, LenProperties DEF IsPrefix
  <2> QED  BY <1>2, <1>3, <1>5, <2>1
<1>7. /\ <<>> \in DOMAIN t /\ t[<<>>].kind = "dir" /\ DOMAIN t \subseteq Seq(STRING)
      /\ \A x \in DOMAIN t \ {<<>>} : Top \o x \in FsPath /\ t[x].kind = KindOf[Top \o x]
      /\ \A x \in DOMAIN t, y \in Seq(STRING) : IsPrefix(y, x) => y \in DOMAIN t
  BY DEF Mirrors
<1>8. ASSUME NEW x \in DOMAIN m, NEW y \in Seq(STRING), IsPrefix(y, x)  PROVE y \in DOMAIN m
  <2>1. CASE x \in DOMAIN t
    BY <1>5, <1>7, <1>8, <2>1
  <2>2. CASE x \in Prefixes(c)
    <3>1. x \in Seq(STRING) /\ IsPrefix(x, c)
      BY <1>3, <2>2
    <3>2. IsPrefix(y, c)
      BY <1>2, <1>8, <3>1, PrefixTransitive
    <3> QED  BY <1>3, <1>5, <3>2
  <2> QED  BY <1>5, <2>1, <2>2
<1>9. \A x \in DOMAIN m \ {<<>>} : Top \o x \in FsPath /\ m[x].kind = KindOf[Top \o x]
  BY <1>4, <1>5, <1>7
<1>10. Mirrors(m)
  <2>1. <<>> \in DOMAIN m /\ m[<<>>].kind = "dir" /\ DOMAIN m \subseteq Seq(STRING)
    BY <1>4, <1>5, <1>7
  <2> QED  BY <1>8, <1>9, <2>1 DEF Mirrors
<1>11. d \in DOMAIN m => d \in DOMAIN t
  BY <1>4, <1>5
<1> QED  BY <1>5, <1>6, <1>10, <1>11 DEF m, c, d

\* Placing a match that keeps its path replaces nothing.
LEMMA PlaceTakes ==
    ASSUME NEW t, Top \in Seq(STRING), Mirrors(t), NEW p \in FsPath, IsPrefix(Top, p), p # Top
    PROVE  Took(t, PlaceIn(t, Rel(p), p), p)
<1> DEFINE d == Rel(p)
           m == Mkdirs(t, Parent(d))
           u == PlaceIn(t, d, p)
<1>1. /\ Mirrors(m) /\ DOMAIN t \subseteq DOMAIN m /\ Parent(d) \in DOMAIN m
      /\ \A x \in DOMAIN t : m[x] = t[x]
      /\ d \in DOMAIN m => d \in DOMAIN t
  BY MkdirsMirrors
<1>2. u = IF IsDir(p) /\ IsDirIn(t, d) THEN m ELSE Put(m, d, p)
  BY DEF PlaceIn
<1> HIDE DEF m, u
<1>3. CASE IsDir(p) /\ IsDirIn(t, d)
  <2>1. d \in DOMAIN m
    BY <1>1, <1>3 DEF IsDirIn, Present
  <2> QED  BY <1>1, <1>2, <1>3, <2>1 DEF Took, u
<1>4. CASE ~ (IsDir(p) /\ IsDirIn(t, d))
  <2>1. BelowIn(m, d) = {}
    <3> SUFFICES ASSUME NEW x \in DOMAIN m, IsStrictPrefix(d, x) PROVE FALSE
      BY DEF BelowIn
    <3>1. IsPrefix(d, x) /\ x # d
      BY DEF IsStrictPrefix
    <3>2. d \in DOMAIN m /\ IsDir(p)
      BY <1>1, <3>1, MirrorFacts
    <3>3. d \in DOMAIN t
      BY <1>1, <3>2
    <3>4. t[d].kind = KindOf[p]
      BY <3>3, MirrorFacts
    <3> QED  BY <1>4, <3>2, <3>3, <3>4 DEF IsDirIn, Present, IsDir
  <2>2. /\ DOMAIN u = DOMAIN m \cup {d} /\ u[d] = [kind |-> KindOf[p], src |-> p]
        /\ \A x \in DOMAIN m : x # d => u[x] = m[x]
    BY <1>2, <1>4, <2>1 DEF Put
  <2>3. Took(m, u, p)
    BY <1>1, <2>2, EntryTakes
  <2> QED  BY <1>1, <2>3 DEF Took, u
<1> QED  BY <1>3, <1>4

\* So does the installation of an entry, if it is not an error.
LEMMA PutTakes ==
    ASSUME NEW t, Top \in Seq(STRING), Mirrors(t), NEW p \in FsPath, IsPrefix(Top, p), p # Top,
           Parent(Rel(p)) \in DOMAIN t, EntryDests(p) = {Rel(p)},
           ~ (IsDir(p) /\ Present(t, Rel(p)))
    PROVE  Took(t, PutEntry(t, p), p)
<1> DEFINE d == Rel(p)
           c == Parent(d)
           u == PutEntry(t, p)
<1>1. IsDirIn(t, c)
  <2>1. d \in Seq(STRING) /\ d # <<>>
    BY MirrorFacts
  <2> HIDE DEF d
  <2>2. c \in Seq(STRING) /\ IsPrefix(c, d) /\ c # d /\ c \in DOMAIN t
    BY <2>1, ParentFacts DEF d
  <2> HIDE DEF c
  <2>3. KindOf[Top \o c] = "dir"
    BY <2>2, MirrorFacts DEF d
  <2>4. t[c].kind = "dir"
    BY <2>2, <2>3 DEF Mirrors
  <2> QED  BY <2>2, <2>4 DEF IsDirIn, Present, c
<1>2. BelowIn(t, d) = {}
  <2> SUFFICES ASSUME NEW x \in DOMAIN t, IsStrictPrefix(d, x) PROVE FALSE
    BY DEF BelowIn
  <2>1. d \in DOMAIN t /\ IsDir(p)
    BY MirrorFacts DEF IsStrictPrefix
  <2> QED  BY <2>1 DEF Present
<1>3. {x \in EntryDests(p) : IsDirIn(t, Parent(x))} = {d}
  BY <1>1
<1>4. /\ DOMAIN u = DOMAIN t \cup {d} /\ u[d] = [kind |-> KindOf[p], src |-> p]
      /\ \A x \in DOMAIN t : x # d => u[x] = t[x]
  <2> DEFINE ds == {x \in EntryDests(p) : IsDirIn(t, Parent(x))}
             gone == UNION {BelowIn(t, x) : x \in ds}
  <2>1. ds = {d} /\ gone = {}
    BY <1>2, <1>3
  <2>2. u = [x \in (DOMAIN t \ gone) \cup ds |->
                IF x \in ds THEN [kind |-> KindOf[p], src |-> p] ELSE t[x]]
    BY DEF PutEntry
  <2> HIDE DEF ds, gone, u, d
  <2> QED  BY <2>1, <2>2
<1> QED  BY <1>4, EntryTakes

\* What the hypotheses say of the search.
LEMMA KeptFacts ==
    ASSUME KeepsPaths, ClaimInv, MatchedInv
    PROVE  /\ Top \in Seq(STRING)
           /\ rule.type = "install" => rule.into # {}
           /\ rule.into # {} => rule.type = "install"
           /\ pc = "search" /\ sd <= Len(dirs) => sd = 1
           /\ pc = "match" => sd = 1 /\ Root = Top /\ Applicable = rule.into
           /\ pc = "search" \/ pc = "match" => Len(dirs) = 1 /\ sd \in Nat \ {0}
           /\ pc \in {"place", "recurse"} =>
                  /\ rule.type = "install" /\ rule.dests = <<Keep>>
                  /\ IsPrefix(Top, cur.path) /\ cur.path # Top /\ cur.root = Top
                  /\ cur.into = rule.into /\ cur.into = alreadyMatched[cur.path]
<1> USE DEF KeepsPaths
<1>1. TypeInv /\ rule \in Rules /\ rule.into \subseteq Package
  BY StateFacts DEF ClaimInv
<1>2. SearchDirs \in Dirs /\ Len(SearchDirs) = 1
  BY SearchDirAssumption
<1>3. Top \in Seq(STRING)
  <2> DEFINE D == [root : Seq(STRING), appliesTo : SUBSET Package]
  <2>1. SearchDirs \in Seq(D) /\ 1 \in 1..Len(SearchDirs)
    BY <1>2 DEF Dirs
  <2> HIDE DEF D
  <2>2. SearchDirs[1] \in D
    BY <2>1, ElementOfSeq
  <2> QED  BY <2>2 DEF Top, D
<1>4. rule.type = "install" => rule.into # {}
  BY <1>1, RuleFacts
<1>5. rule.into # {} => rule.type = "install"
  <2>1. NoRule.into = {}
    BY DEF NoRule
  <2> QED  BY <1>1, <2>1, EnabledRules, StagingRuleType DEF Rules
<1>6. sd \in Nat \ {0}
  BY <1>1 DEF TypeInv, TypeOK
<1>7. pc = "search" \/ pc = "match" => dirs = SearchDirs
  BY DEF MatchedInv, Working
<1>10. /\ pc = "search" \/ pc = "match" => Len(dirs) = 1
       /\ pc = "search" /\ sd <= Len(dirs) => sd = 1
  <2>1. pc = "search" \/ pc = "match" => Len(dirs) = 1
    BY <1>2, <1>7
  <2>2. sd <= 1 => sd = 1
    BY <1>6
  <2> QED  BY <2>1, <2>2
<1>8. ASSUME pc = "match"  PROVE sd = 1 /\ Root = Top /\ Applicable = rule.into
  <2>1. sd \in 1..Len(dirs) /\ dirs = SearchDirs /\ missing = rule.into
    BY <1>1, <1>7, <1>8 DEF TypeInv, Scope, MatchedInv
  <2>2. sd = 1
    <3>1. sd \in 1..Len(SearchDirs)
      BY <2>1
    <3> QED  BY <1>2, <3>1
  <2> QED  BY <1>1, <2>1, <2>2 DEF Root, Top, Applicable
<1>9. ASSUME pc \in {"place", "recurse"}
      PROVE  /\ rule.type = "install" /\ rule.dests = <<Keep>>
             /\ IsPrefix(Top, cur.path) /\ cur.path # Top /\ cur.root = Top
             /\ cur.into = rule.into /\ cur.into = alreadyMatched[cur.path]
  <2>1. rule.type = "install"
    BY <1>1, <1>9 DEF TypeInv, Scope
  <2>2. Kept(cur, rule, alreadyMatched) /\ rule.dests = <<Keep>> /\ InView(cur)
    BY <1>9, <2>1 DEF MatchedInv, ClaimInv, SearchInv
  <2> QED  BY <2>1, <2>2 DEF Kept, InView
<1> QED  BY <1>3, <1>4, <1>5, <1>6, <1>8, <1>9, <1>10

\* Every match stays one that all packages of the rule have.
LEMMA MatchedStep ==
    ASSUME KeepsPaths, ClaimInv, CompleteInv, MatchedInv, [Next]_vars
    PROVE  MatchedInv'
<1>1. TypeInv /\ matches \in Seq(Matched) /\ Len(matches) \in Nat /\ cur.path \in FsPath
  BY StateFacts, LenProperties DEF ClaimInv, TypeInv, TypeOK
<1>2. ASSUME NEW m, m.path \in FsPath, Kept(m, rule, alreadyMatched), rule' = rule, rule.type = "install"
      PROVE  Kept(m, rule', alreadyMatched')
  <2>1. Claimed(m.path) /\ m.root = Top /\ m.path # Top /\ m.into = rule.into /\ m.into = alreadyMatched[m.path]
    BY <1>2, KeptFacts DEF Kept, Claimed
  <2>2. alreadyMatched'[m.path] = alreadyMatched[m.path]
    BY <1>2, <2>1, ClaimsStay DEF Claimed
  <2> QED  BY <1>2, <2>1, <2>2 DEF Kept
<1>3. ASSUME NEW i \in 1..Len(matches)  PROVE matches[i].path \in FsPath
  <2>1. matches[i] \in Matched
    BY <1>1, ElementOfSeq
  <2> QED  BY <2>1 DEF Matched
<1>4. ASSUME UNCHANGED <<toStage, rule, dirs, alreadyMatched, matches, cur>>, Working' => Working,
             pc' \in {"place", "recurse"} => pc \in {"place", "recurse"},
             (pc' = "search" /\ sd' = 1) \/ pc' = "match" => missing' = rule.into
      PROVE  MatchedInv'
  <2>1. ASSUME NEW m, Kept(m, rule, alreadyMatched)  PROVE Kept(m, rule', alreadyMatched')
    BY <1>4, <2>1 DEF Kept
  <2>2. rule.type = "install" /\ Working' => \A i \in 1..Len(matches') : Kept(matches'[i], rule', alreadyMatched')
    BY <1>4, <2>1 DEF MatchedInv
  <2>3. pc' \in {"place", "recurse"} => Kept(cur', rule', alreadyMatched')
    BY <1>4, <2>1 DEF MatchedInv
  <2> QED  BY <1>4, <2>2, <2>3 DEF MatchedInv, Claimed, Kept
<1>5. ASSUME NEW e, Fail(e)  PROVE MatchedInv'
  BY <1>4, <1>5 DEF Fail, searchVars, placeVars, manifestVars, matcherVars, Working
<1>6. ASSUME NextPattern, UNCHANGED <<toStage, rule, dirs, alreadyMatched>>, Working  PROVE MatchedInv'
  <2>1. Len(matches') = 0 /\ pc' \in {"search", "rules"} /\ (pc' = "search" => missing' = rule.into)
    BY <1>6 DEF NextPattern
  <2>2. \A i \in 1..Len(matches') : FALSE
    BY <2>1
  <2> QED  BY <1>6, <2>1, <2>2 DEF MatchedInv, Claimed
<1>7. ASSUME NEW r \in RuleSpace, PerformRule(r)  PROVE MatchedInv'
  <2>1. /\ rule' = r /\ dirs' = SearchDirs /\ missing' = r.into /\ matches' = <<>> /\ pc' = "search"
        /\ UNCHANGED <<toStage, alreadyMatched>>
    BY <1>7 DEF PerformRule, StartRule, matcherVars
  <2>2. r.type = "install" => r.dests = <<Keep>>
    BY DEF KeepsPaths
  <2>3. Len(matches') = 0 /\ \A i \in 1..0 : FALSE
    BY <2>1
  <2> QED  BY <2>1, <2>2, <2>3 DEF MatchedInv, Claimed
<1>8. ASSUME NEW p \in FsPath, Match(p)  PROVE MatchedInv'
  <2>0. pc = "match" /\ p \in todo /\ missing = rule.into
    BY <1>8 DEF Match, Yielded, MatchRootDir, MatchReserved, MatchExcluded, MatchAndReserve, MatchAndExclude,
                MatchedInv
  <2>1. CASE MatchRootDir(p)
    BY <1>5, <2>1 DEF MatchRootDir
  <2>2. CASE MatchReserved(p)
    BY <1>4, <1>5, <2>0, <2>2 DEF MatchReserved, placeVars, manifestVars, matcherVars, Working
  <2>3. CASE MatchExcluded(p)
    BY <1>4, <2>0, <2>3 DEF MatchExcluded, placeVars, manifestVars, Working
  <2>4. CASE MatchAndExclude(p)
    <3>1. rule.type # "install" /\ pc' = "match"
          /\ UNCHANGED <<toStage, rule, dirs, missing, alreadyMatched>>
      BY <2>0, <2>4, KeptFacts DEF MatchAndExclude, manifestVars
    <3> QED  BY <2>0, <3>1 DEF MatchedInv, Claimed, Working
  <2>5. CASE MatchAndReserve(p)
    <3>1. CASE RequestedBefore(p)
      BY <1>5, <2>5, <3>1 DEF MatchAndReserve
    <3>2. CASE ~ RequestedBefore(p)
      <4> DEFINE m == [path |-> p, root |-> Root, into |-> Applicable]
      <4>1. /\ matches' = Append(matches, m)
            /\ alreadyMatched' = [alreadyMatched EXCEPT ![p] = Applicable]
            /\ p # Root /\ rule.into # {}
            /\ UNCHANGED <<pc, rule, dirs, sd, missing, toStage>>
        BY <2>5, <3>2 DEF MatchAndReserve, manifestVars
      <4>2. Root = Top /\ Applicable = rule.into /\ rule.type = "install"
        BY <2>0, <4>1, KeptFacts
      <4>3. alreadyMatched'[p] = rule.into
        BY <4>1, <4>2, MatcherTypes
      <4>4. m.path = p /\ m.root = Top /\ m.into = rule.into
        BY <4>2
      <4> HIDE DEF m
      <4>5. Kept(m, rule', alreadyMatched')
        BY <4>1, <4>2, <4>3, <4>4 DEF Kept
      <4>6. ASSUME NEW i \in 1..Len(matches')  PROVE Kept(matches'[i], rule', alreadyMatched')
        <5>1. CASE i = Len(matches) + 1
          <6>1. matches'[i] = m
            BY <1>1, <4>1, <5>1
          <6> QED  BY <4>5, <6>1
        <5>2. CASE i # Len(matches) + 1
          <6>1. i \in 1..Len(matches) /\ matches'[i] = matches[i]
            BY <1>1, <4>1, <5>2
          <6>2. Kept(matches[i], rule, alreadyMatched)
            BY <2>0, <4>2, <6>1 DEF MatchedInv, Working
          <6> QED  BY <1>2, <1>3, <4>1, <4>2, <6>1, <6>2
        <5> QED  BY <5>1, <5>2
      <4>7. ASSUME NEW q \in FsPath, Claimed(q)'  PROVE IsPrefix(Top, q)
        <5>1. CASE q = p
          BY <2>0, <4>2, <5>1 DEF ClaimInv, SearchInv
        <5>2. CASE q # p
          BY <4>1, <4>7, <5>2, MatcherTypes DEF Claimed, MatchedInv
        <5> QED  BY <5>1, <5>2
      <4>8. pc' = "match" /\ missing' = rule'.into
        BY <2>0, <4>1
      <4> QED  BY <2>0, <4>1, <4>6, <4>7, <4>8 DEF MatchedInv, Working, Kept
    <3> QED  BY <3>1, <3>2
  <2> QED  BY <1>8, <2>1, <2>2, <2>3, <2>4, <2>5 DEF Match
<1>9. CASE NextMatch
  <2>0. PICK n \in Nat : n = Len(matches)
    BY <1>1
  <2>1. /\ matches # <<>> /\ pc = "install" /\ pc' = "place" /\ cur' = Head(matches) /\ matches' = Tail(matches)
        /\ UNCHANGED <<rule, dirs, sd, missing, alreadyMatched, toStage>>
    BY <1>9 DEF NextMatch, matcherVars, manifestVars
  <2>2. /\ cur' = matches[1] /\ 1 \in 1..n /\ Len(matches') = n - 1
        /\ \A i \in 1..(n - 1) : matches'[i] = matches[i + 1] /\ i + 1 \in 1..n
    BY <1>1, <2>0, <2>1, HeadTailProperties
  <2>3. \A i \in 1..n : Kept(matches[i], rule, alreadyMatched)
    BY <1>1, <2>0, <2>1 DEF TypeInv, Scope, Working, MatchedInv
  <2>4. Kept(cur', rule', alreadyMatched')
    BY <2>1, <2>2, <2>3
  <2>5. \A i \in 1..Len(matches') : Kept(matches'[i], rule', alreadyMatched')
    BY <2>1, <2>2, <2>3
  <2> QED  BY <2>1, <2>4, <2>5 DEF MatchedInv, Claimed, Working
<1>10. ASSUME NEW e \in FsPath, InstallEntry(e)  PROVE MatchedInv'
  <2>1. /\ pc = "recurse" /\ pc' = pc /\ e \in work
        /\ alreadyMatched' = [alreadyMatched EXCEPT ![e] = rule.into]
        /\ UNCHANGED <<rule, dirs, sd, missing, matches, cur, toStage>>
    BY <1>10 DEF InstallEntry, searchVars, manifestVars
  <2>2. rule.type = "install" /\ rule.dests = <<Keep>> /\ cur.root = Top /\ Kept(cur, rule, alreadyMatched)
    BY <2>1, KeptFacts DEF MatchedInv
  <2>3. \A i \in 1..Len(matches') : Kept(matches'[i], rule', alreadyMatched')
    BY <1>2, <1>3, <2>1, <2>2 DEF MatchedInv, Working
  <2>4. Kept(cur', rule', alreadyMatched')
    BY <1>1, <1>2, <2>1, <2>2
  <2>5. ASSUME NEW q \in FsPath, Claimed(q)'  PROVE IsPrefix(Top, q)
    <3>1. CASE q = e
      BY <2>1, <2>2, <3>1 DEF ClaimInv, StackInv
    <3>2. CASE q # e
      BY <2>1, <2>5, <3>2, MatcherTypes DEF Claimed, MatchedInv
    <3> QED  BY <3>1, <3>2
  <2> QED  BY <2>1, <2>2, <2>3, <2>4, <2>5 DEF MatchedInv, Working
<1>11. CASE UNCHANGED vars
  <2>1. UNCHANGED <<toStage, rule, dirs, alreadyMatched, matches, cur, pc, sd, missing>>
    BY <1>11 DEF vars, searchVars, placeVars, manifestVars, matcherVars
  <2> QED  BY <1>4, <2>1 DEF Working, MatchedInv
<1>12. ASSUME UNCHANGED <<searchVars, cur, alreadyMatched, toStage>>,
              pc' \notin {"search", "match"} \/ pc' = pc,
              Working' => Working, pc' \in {"place", "recurse"} => pc \in {"place", "recurse"}
       PROVE  MatchedInv'
  <2>1. (pc' = "search" /\ sd' = 1) \/ pc' = "match" => missing' = rule.into
    BY <1>12 DEF MatchedInv, searchVars
  <2> QED  BY <1>4, <1>12, <2>1 DEF searchVars
<1>13. CASE Next
  <2> USE DEF placeVars, manifestVars, matcherVars
  <2>1. ASSUME NEW pkg \in Package, PerformStaging(pkg)  PROVE FALSE
    BY <2>1 DEF PerformStaging, MatchedInv
  <2>2. ASSUME NEW r \in RuleSpace, RejectRule(r)  PROVE MatchedInv'
    BY <1>5, <2>2 DEF RejectRule
  <2>3. CASE EndOfRules \/ AllDetected \/ FinishMatch
    BY <1>12, <2>3 DEF EndOfRules, AllDetected, FinishMatch, Working
  <2>4. CASE SkipSearchDir
    <3>1. sd' = sd + 1 /\ sd \in Nat \ {0} /\ pc' = "search" /\ pc = "search"
          /\ UNCHANGED <<toStage, rule, dirs, alreadyMatched, matches, cur>>
      BY <2>4, KeptFacts DEF SkipSearchDir
    <3> QED  BY <1>4, <3>1 DEF Working
  <2>5. CASE EnterSearchDir
    <3>1. sd <= Len(dirs) /\ pc = "search" /\ pc' = "match"
          /\ UNCHANGED <<toStage, rule, dirs, sd, missing, alreadyMatched, matches, cur>>
      BY <2>5 DEF EnterSearchDir
    <3>2. missing' = rule.into
      BY <3>1, KeptFacts DEF MatchedInv
    <3> QED  BY <1>4, <3>1, <3>2 DEF Working
  <2>6. CASE LeaveSearchDir
    <3>1. (sd' = Len(dirs) + 1 \/ sd' = sd + 1) /\ pc = "match" /\ pc' = "search"
          /\ UNCHANGED <<toStage, rule, dirs, alreadyMatched, matches, cur>>
      BY <2>6 DEF LeaveSearchDir
    <3>2. Len(dirs) = 1 /\ sd \in Nat \ {0}
      BY <3>1, KeptFacts
    <3>3. sd' # 1
      BY <3>1, <3>2
    <3> QED  BY <1>4, <3>1, <3>3 DEF Working
  <2>7. CASE NothingMatched
    <3>1. CASE rule.builtin
      BY <1>12, <2>7, <3>1 DEF NothingMatched, Working
    <3>2. CASE ~ rule.builtin
      BY <1>5, <2>7, <3>2 DEF NothingMatched
    <3> QED  BY <3>1, <3>2
  <2>8. CASE PatternMatched
    <3>1. pc = "search"
      BY <2>8 DEF PatternMatched, Searched
    <3>2. CASE SingleMatchViolated
      BY <1>5, <2>8, <3>2 DEF PatternMatched
    <3>3. CASE ~ SingleMatchViolated /\ (rule.type = "discard" \/ Disabled)
      BY <1>6, <2>8, <3>1, <3>3 DEF PatternMatched, Working
    <3>4. CASE ~ SingleMatchViolated /\ ~ (rule.type = "discard" \/ Disabled)
      BY <1>4, <2>8, <3>1, <3>4 DEF PatternMatched, Working
    <3> QED  BY <3>2, <3>3, <3>4
  <2>9. CASE FinishPattern
    BY <1>6, <2>9 DEF FinishPattern, Working
  <2>10. CASE PlaceError
    BY <1>5, <2>10 DEF PlaceError
  <2>11. CASE Place
    BY <1>12, <2>11 DEF Place, Working
  <2>12. CASE Placed
    BY <1>12, <2>12 DEF Placed, Working
  <2>13. ASSUME NEW e \in FsPath, EntryError(e)  PROVE MatchedInv'
    BY <1>5, <2>13 DEF EntryError
  <2>14. ASSUME NEW root \in CheckDirs, Detect(root)  PROVE MatchedInv'
    BY <1>12, <2>14 DEF Detect, Working
  <2>15. CASE Ended
    BY <1>11, <2>15 DEF Ended
  <2> QED  BY <1>7, <1>8, <1>9, <1>10, <1>13, <2>1, <2>2, <2>3, <2>4, <2>5, <2>6, <2>7, <2>8, <2>9,
              <2>10, <2>11, <2>12, <2>13, <2>14, <2>15 DEF Next
<1> QED  BY <1>11, <1>13

\* What a step that writes into packages does to them.
LEMMA PlaceFills ==
    ASSUME KeepsPaths, ClaimInv, MatchedInv, MirrorInv, Place
    PROVE  /\ pc = "place" /\ dest = 1 /\ cur.path \in FsPath
           /\ \A pkg \in cur.into : pkg \in Package /\ Took(fs[pkg], fs'[pkg], cur.path)
           /\ \A pkg \in Package \ cur.into : fs'[pkg] = fs[pkg]
<1>1. /\ pc = "place" /\ dest <= Len(rule.dests)
      /\ fs' = [pkg \in Package |->
                    IF pkg \in cur.into THEN PlaceIn(fs[pkg], Destination, cur.path) ELSE fs[pkg]]
  BY DEF Place
<1>2. TypeInv /\ cur.path \in FsPath /\ cur.into \subseteq Package /\ dest \in Nat \ {0}
  BY StateFacts DEF ClaimInv, TypeInv, TypeOK
<1>3. /\ Top \in Seq(STRING) /\ rule.dests = <<Keep>> /\ cur.root = Top
      /\ IsPrefix(Top, cur.path) /\ cur.path # Top
  BY <1>1, KeptFacts
<1>4. dest = 1
  <2>1. dest <= 1
    BY <1>1, <1>3
  <2> QED  BY <1>2, <2>1
<1>5. Destination = Rel(cur.path)
  BY <1>3, <1>4 DEF Destination, DestPath, Keep, Rel
<1>6. ASSUME NEW pkg \in cur.into  PROVE pkg \in Package /\ Took(fs[pkg], fs'[pkg], cur.path)
  <2>1. pkg \in Package /\ fs'[pkg] = PlaceIn(fs[pkg], Rel(cur.path), cur.path)
    BY <1>1, <1>2, <1>5
  <2>2. Mirrors(fs[pkg])
    BY <2>1 DEF MirrorInv
  <2> QED  BY <1>2, <1>3, <2>1, <2>2, PlaceTakes
<1>7. \A pkg \in Package \ cur.into : fs'[pkg] = fs[pkg]
  BY <1>1
<1> QED  BY <1>1, <1>2, <1>4, <1>6, <1>7

LEMMA EntryFills ==
    ASSUME KeepsPaths, ClaimInv, MatchedInv, MirrorInv, NEW e \in FsPath, InstallEntry(e)
    PROVE  /\ pc = "recurse" /\ e \in work
           /\ IsPrefix(cur.path, e) /\ IsPrefix(Top, e) /\ e # Top
           /\ \A pkg \in cur.into : pkg \in Package /\ Took(fs[pkg], fs'[pkg], e)
           /\ \A pkg \in Package \ cur.into : fs'[pkg] = fs[pkg]
<1>1. /\ pc = "recurse" /\ e \in work
      /\ ~ EntryFails(e, "mkdir-exists")
      /\ fs' = [pkg \in Package |->
                    IF pkg \in cur.into THEN PutEntry(fs[pkg], e) ELSE fs[pkg]]
  BY DEF InstallEntry, EntryErrors
<1>2. /\ cur.path \in FsPath /\ cur.into \subseteq Package
      /\ cur.path \in Seq(STRING) /\ e \in Seq(STRING)
  BY StateFacts, TreeAssumption DEF ClaimInv
<1>3. /\ Top \in Seq(STRING) /\ rule.dests = <<Keep>> /\ cur.root = Top
      /\ IsPrefix(Top, cur.path)
  BY <1>1, KeptFacts
<1>4. IsPrefix(cur.path, e) /\ e # Top /\ \A pkg \in cur.into : Parent(Rel(e)) \in DOMAIN fs[pkg]
  BY <1>1 DEF MirrorInv
<1>5. IsPrefix(Top, e)
  BY <1>2, <1>3, <1>4, PrefixTransitive
<1>6. EntryDests(e) = {Rel(e)}
  <2>1. DestPath(rule.dests[1], cur) = Rel(cur.path)
    BY <1>3 DEF DestPath, Keep, Rel
  <2>2. Rel(cur.path) \o Relative(cur.path, e) = Rel(e)
    BY <1>2, <1>3, <1>4, RelativeJoin DEF Rel
  <2>3. DOMAIN rule.dests = {1}
    BY <1>3
  <2> DEFINE To(i) == DestPath(rule.dests[i], cur) \o Relative(cur.path, e)
  <2>4. EntryDests(e) = {To(i) : i \in {1}}
    BY <2>3 DEF EntryDests
  <2>5. To(1) = Rel(e)
    BY <2>1, <2>2
  <2> HIDE DEF To
  <2> QED  BY <2>4, <2>5
<1>7. ASSUME NEW pkg \in cur.into  PROVE pkg \in Package /\ Took(fs[pkg], fs'[pkg], e)
  <2>1. pkg \in Package /\ fs'[pkg] = PutEntry(fs[pkg], e)
    BY <1>1, <1>2
  <2>2. Mirrors(fs[pkg])
    BY <2>1 DEF MirrorInv
  <2>3. ~ (IsDir(e) /\ Present(fs[pkg], Rel(e)))
    BY <1>1, <1>6 DEF EntryFails
  <2> QED  BY <1>3, <1>4, <1>5, <1>6, <2>1, <2>2, <2>3, PutTakes
<1>8. \A pkg \in Package \ cur.into : fs'[pkg] = fs[pkg]
  BY <1>1
<1> QED  BY <1>1, <1>4, <1>5, <1>7, <1>8

\* The packages keep mirroring the search directory, and what goes on the stack
\* has its directory in them.
LEMMA MirrorStep ==
    ASSUME KeepsPaths, ClaimInv, MatchedInv, MirrorInv, [Next]_vars
    PROVE  MirrorInv'
<1>1. ASSUME UNCHANGED fs, pc' \notin {"place", "recurse"}  PROVE MirrorInv'
  BY <1>1 DEF MirrorInv
<1>2. ASSUME UNCHANGED <<fs, cur, dest, work, pc>>  PROVE MirrorInv'
  BY <1>2 DEF MirrorInv
<1>3. ASSUME NEW e, Fail(e)  PROVE MirrorInv'
  BY <1>1, <1>3 DEF Fail
<1>4. CASE Place
  <2>1. /\ UNCHANGED <<pc, cur>> /\ pc = "place"
        /\ \A pkg \in cur.into : pkg \in Package /\ Took(fs[pkg], fs'[pkg], cur.path)
        /\ \A pkg \in Package \ cur.into : fs'[pkg] = fs[pkg]
    BY <1>4, PlaceFills DEF Place
  <2>2. \A pkg \in Package : Mirrors(fs'[pkg])
    BY <2>1 DEF MirrorInv, Took
  <2>3. \A pkg \in cur.into : Rel(cur.path) \in DOMAIN fs'[pkg]
    BY <2>1 DEF Took
  <2> QED  BY <2>1, <2>2, <2>3 DEF MirrorInv
<1>5. CASE Placed
  <2>1. /\ pc = "place" /\ dest > Len(rule.dests) /\ UNCHANGED <<fs, cur, dest>>
        /\ pc' = "install" \/ (pc' = "recurse" /\ work' = Unreserved(cur.path))
    BY <1>5 DEF Placed
  <2>2. CASE pc' = "install"
    BY <1>1, <2>1, <2>2
  <2>3. CASE pc' = "recurse" /\ work' = Unreserved(cur.path)
    <3>1. Top \in Seq(STRING) /\ IsPrefix(Top, cur.path) /\ rule.dests = <<Keep>> /\ cur.path \in FsPath
      BY <2>1, KeptFacts, StateFacts DEF ClaimInv
    <3>2. \A pkg \in cur.into : Rel(cur.path) \in DOMAIN fs[pkg]
      <4>1. dest > 1
        BY <2>1, <3>1
      <4> QED  BY <2>1, <4>1 DEF MirrorInv
    <3>3. ASSUME NEW e \in work'
          PROVE  /\ IsPrefix(cur.path, e) /\ e # Top
                 /\ \A pkg \in cur.into : Parent(Rel(e)) \in DOMAIN fs[pkg]
      <4>1. e \in Children(cur.path)
        BY <2>3, <3>3 DEF Unreserved
      <4>2. IsPrefix(cur.path, e) /\ e # Top /\ Rel(cur.path) = Parent(Rel(e))
        BY <3>1, <4>1, RelOfChild DEF Rel
      <4> QED  BY <3>2, <4>2
    <3> QED  BY <2>1, <2>3, <3>3 DEF MirrorInv
  <2> QED  BY <2>1, <2>2, <2>3
<1>6. ASSUME NEW e \in FsPath, InstallEntry(e)  PROVE MirrorInv'
  <2>1. /\ pc = "recurse" /\ e \in work /\ IsPrefix(cur.path, e) /\ IsPrefix(Top, e)
        /\ \A pkg \in cur.into : pkg \in Package /\ Took(fs[pkg], fs'[pkg], e)
        /\ \A pkg \in Package \ cur.into : fs'[pkg] = fs[pkg]
    BY <1>6, EntryFills
  <2>2. pc' = pc /\ cur' = cur /\ work' = (work \ {e}) \cup Unreserved(e)
    BY <1>6 DEF InstallEntry
  <2>3. \A pkg \in Package : Mirrors(fs'[pkg])
    BY <2>1 DEF MirrorInv, Took
  <2>4. ASSUME NEW f \in work'
        PROVE  /\ IsPrefix(cur.path, f) /\ f # Top
               /\ \A pkg \in cur.into : Parent(Rel(f)) \in DOMAIN fs'[pkg]
    <3>1. CASE f \in work
      <4>1. /\ IsPrefix(cur.path, f) /\ f # Top
            /\ \A pkg \in cur.into : Parent(Rel(f)) \in DOMAIN fs[pkg]
        BY <2>1, <3>1 DEF MirrorInv
      <4> QED  BY <2>1, <4>1 DEF Took
    <3>2. CASE f \in Unreserved(e)
      <4>1. Top \in Seq(STRING) /\ f \in Children(e) /\ cur.path \in Seq(STRING) /\ e \in Seq(STRING)
        BY <3>2, KeptFacts, StateFacts, TreeAssumption DEF Unreserved, ClaimInv
      <4>2. IsPrefix(e, f) /\ f # Top /\ Rel(e) = Parent(Rel(f)) /\ f \in Seq(STRING)
        BY <2>1, <4>1, RelOfChild, TreeAssumption DEF Rel
      <4>3. IsPrefix(cur.path, f)
        BY <2>1, <4>1, <4>2, PrefixTransitive
      <4> QED  BY <2>1, <4>2, <4>3 DEF Took
    <3> QED  BY <2>2, <3>1, <3>2
  <2> QED  BY <2>1, <2>2, <2>3, <2>4 DEF MirrorInv
<1>7. CASE UNCHANGED vars
  BY <1>2, <1>7 DEF vars, placeVars
<1>8. CASE Next
  <2>1. ASSUME NEW pkg \in Package, PerformStaging(pkg)  PROVE MirrorInv'
    BY <1>1, <2>1 DEF PerformStaging, StartRule
  <2>2. ASSUME NEW r \in RuleSpace, PerformRule(r)  PROVE MirrorInv'
    BY <1>1, <2>2 DEF PerformRule, StartRule
  <2>3. ASSUME NEW r \in RuleSpace, RejectRule(r)  PROVE MirrorInv'
    BY <1>3, <2>3 DEF RejectRule
  <2>4. CASE EndOfRules \/ AllDetected \/ FinishMatch \/ SkipSearchDir \/ EnterSearchDir \/ LeaveSearchDir
    BY <1>1, <2>4 DEF EndOfRules, AllDetected, FinishMatch, SkipSearchDir, EnterSearchDir, LeaveSearchDir
  <2>5. ASSUME NEW p \in FsPath, Match(p)  PROVE MirrorInv'
    <3>1. \/ UNCHANGED fs /\ pc' = pc /\ pc = "match"
          \/ UNCHANGED fs /\ pc' = "failed"
      BY <2>5 DEF Match, Yielded, MatchRootDir, MatchReserved, MatchExcluded, MatchAndReserve, MatchAndExclude, Fail
    <3> QED  BY <1>1, <3>1
  <2>6. CASE NothingMatched \/ PatternMatched \/ FinishPattern
    <3>1. UNCHANGED fs /\ pc' \in {"rules", "failed", "search", "install"}
      BY <2>6 DEF NothingMatched, PatternMatched, FinishPattern, NextPattern, Fail
    <3> QED  BY <1>1, <3>1
  <2>7. CASE NextMatch
    <3>1. UNCHANGED fs /\ pc' = "place" /\ dest' = 1
      BY <2>7 DEF NextMatch
    <3> QED  BY <3>1 DEF MirrorInv
  <2>8. CASE PlaceError
    BY <1>3, <2>8 DEF PlaceError
  <2>9. ASSUME NEW e \in FsPath, EntryError(e)  PROVE MirrorInv'
    BY <1>3, <2>9 DEF EntryError
  <2>10. ASSUME NEW root \in CheckDirs, Detect(root)  PROVE MirrorInv'
    BY <1>1, <2>10 DEF Detect
  <2>11. CASE Ended
    BY <1>7, <2>11 DEF Ended
  <2> QED  BY <1>4, <1>5, <1>6, <1>8, <2>1, <2>2, <2>3, <2>4, <2>5, <2>6, <2>7, <2>8, <2>9, <2>10, <2>11 DEF Next
<1> QED  BY <1>7, <1>8

\* What is reserved for a package is in it, or about to be, after each step.
LEMMA ArrivedStep ==
    ASSUME KeepsPaths, ClaimInv, CompleteInv, MatchedInv, MirrorInv, ArrivedInv, [Next]_vars,
           pc' # "failed"
    PROVE  Arrived'
<1>0. Arrived
  <2>1. pc # "failed"
    BY FailedStays
  <2> QED  BY <2>1 DEF ArrivedInv
<1>1. /\ TypeInv /\ matches \in Seq(Matched) /\ Len(matches) \in Nat /\ cur.path \in FsPath
      /\ Top \in Seq(STRING)
  BY StateFacts, LenProperties, KeptFacts DEF ClaimInv, TypeInv, TypeOK
<1>2. ASSUME UNCHANGED <<alreadyMatched, fs>>, \A p \in FsPath : Due(p) => Due(p)'
      PROVE  Arrived'
  BY <1>0, <1>2 DEF Arrived, InPlace
<1>3. ASSUME UNCHANGED <<alreadyMatched, fs, rule, matches, dest, cur>>, pc' = pc \/ pc # "place",
             Working => Working'
      PROVE  Arrived'
  BY <1>2, <1>3 DEF Due
<1>4. ASSUME UNCHANGED <<alreadyMatched, fs>>,
             ~ Working \/ rule.type # "install" \/ (matches = <<>> /\ pc # "place")
      PROVE  Arrived'
  <2>1. matches = <<>> => Len(matches) = 0 /\ \A i \in 1..0 : FALSE
    OBVIOUS
  <2> QED  BY <1>2, <1>4, <2>1 DEF Due
<1>5. ASSUME NEW p \in FsPath, NEW q \in FsPath, p # q, IsPrefix(Top, p), IsPrefix(Top, q)
      PROVE  Rel(p) # Rel(q)
  <2>1. p \in Seq(STRING) /\ q \in Seq(STRING)
    BY TreeAssumption
  <2>2. Top \o Rel(p) = p /\ Top \o Rel(q) = q
    BY <1>1, <1>5, <2>1, RelativeFacts DEF Rel
  <2> QED  BY <1>5, <2>2
<1>6. ASSUME NEW e \in FsPath, IsPrefix(Top, e),
             \A pkg \in cur.into : pkg \in Package /\ Took(fs[pkg], fs'[pkg], e),
             \A pkg \in Package \ cur.into : fs'[pkg] = fs[pkg],
             NEW p \in FsPath, ~ IsDir(p), IsPrefix(Top, p),
             NEW pkg \in Package, InPlace(pkg, p)
      PROVE  InPlace(pkg, p)'
  <2>1. CASE pkg \notin cur.into
    BY <1>6, <2>1 DEF InPlace
  <2>2. CASE pkg \in cur.into /\ p = e
    BY <1>6, <2>2 DEF InPlace, Took
  <2>3. CASE pkg \in cur.into /\ p # e
    <3>1. Rel(p) # Rel(e)
      BY <1>5, <1>6, <2>3
    <3> QED  BY <1>6, <2>3, <3>1 DEF InPlace, Took
  <2> QED  BY <2>1, <2>2, <2>3
<1>7. ASSUME NEW p \in FsPath, NEW pkg \in alreadyMatched[p]
      PROVE  pkg \in Package /\ IsPrefix(Top, p)
  BY <1>7, MatcherTypes DEF MatchedInv, Claimed
<1>8. CASE Place
  <2>1. /\ pc = "place" /\ dest = 1 /\ IsPrefix(Top, cur.path) /\ cur.into = alreadyMatched[cur.path]
        /\ \A pkg \in cur.into : pkg \in Package /\ Took(fs[pkg], fs'[pkg], cur.path)
        /\ \A pkg \in Package \ cur.into : fs'[pkg] = fs[pkg]
    BY <1>8, PlaceFills, KeptFacts
  <2>2. UNCHANGED <<alreadyMatched, rule, matches, cur, pc>>
    BY <1>8 DEF Place, searchVars, matcherVars
  <2>3. ASSUME NEW p \in FsPath, ~ IsDir(p), NEW pkg \in alreadyMatched'[p]
        PROVE  InPlace(pkg, p)' \/ Due(p)'
    <3>1. pkg \in alreadyMatched[p] /\ pkg \in Package /\ IsPrefix(Top, p)
      BY <1>7, <2>2, <2>3
    <3>2. CASE InPlace(pkg, p)
      BY <1>1, <1>6, <2>1, <2>3, <3>1, <3>2
    <3>3. CASE p = cur.path
      BY <2>1, <2>3, <3>1, <3>3 DEF InPlace, Took
    <3>4. CASE Due(p) /\ p # cur.path
      BY <2>2, <3>4 DEF Due, Working
    <3> QED  BY <1>0, <2>3, <3>1, <3>2, <3>3, <3>4 DEF Arrived
  <2> QED  BY <2>3 DEF Arrived
<1>9. ASSUME NEW e \in FsPath, InstallEntry(e)  PROVE Arrived'
  <2>1. /\ pc = "recurse" /\ e \in work /\ IsPrefix(Top, e) /\ cur.into = rule.into
        /\ \A pkg \in cur.into : pkg \in Package /\ Took(fs[pkg], fs'[pkg], e)
        /\ \A pkg \in Package \ cur.into : fs'[pkg] = fs[pkg]
    BY <1>9, EntryFills, KeptFacts
  <2>2. /\ UNCHANGED <<rule, matches, cur, dest, pc>>
        /\ alreadyMatched' = [alreadyMatched EXCEPT ![e] = rule.into]
    BY <1>9 DEF InstallEntry, searchVars
  <2>3. ASSUME NEW p \in FsPath, ~ IsDir(p), NEW pkg \in alreadyMatched'[p]
        PROVE  InPlace(pkg, p)' \/ Due(p)'
    <3>1. CASE p = e
      <4>1. pkg \in cur.into
        BY <2>1, <2>2, <2>3, <3>1, MatcherTypes
      <4> QED  BY <2>1, <2>3, <3>1, <4>1 DEF InPlace, Took
    <3>2. CASE p # e
      <4>1. pkg \in alreadyMatched[p]
        BY <2>2, <2>3, <3>2, MatcherTypes
      <4>2. pkg \in Package /\ IsPrefix(Top, p)
        BY <1>7, <4>1
      <4>3. CASE InPlace(pkg, p)
        BY <1>6, <2>1, <2>3, <4>2, <4>3
      <4>4. CASE Due(p)
        BY <2>2, <4>4 DEF Due, Working
      <4> QED  BY <1>0, <2>3, <4>1, <4>3, <4>4 DEF Arrived
    <3> QED  BY <3>1, <3>2
  <2> QED  BY <2>3 DEF Arrived
<1>10. CASE NextMatch
  <2>0. PICK n \in Nat : n = Len(matches)
    BY <1>1
  <2>1. /\ matches # <<>> /\ pc = "install" /\ pc' = "place" /\ dest' = 1
        /\ cur' = Head(matches) /\ matches' = Tail(matches)
        /\ UNCHANGED <<rule, alreadyMatched, fs>>
    BY <1>10 DEF NextMatch, matcherVars
  <2>2. cur' = matches[1] /\ Len(matches') = n - 1 /\ \A i \in 1..(n - 1) : matches'[i] = matches[i + 1]
    BY <1>1, <2>0, <2>1, HeadTailProperties
  <2>3. \A i \in 1..n : i = 1 \/ (i - 1 \in 1..(n - 1) /\ matches'[i - 1] = matches[i])
    BY <2>2
  <2>4. ASSUME NEW p \in FsPath, Due(p)  PROVE Due(p)'
    <3>1. PICK i \in 1..n : matches[i].path = p
      BY <2>0, <2>1, <2>4 DEF Due
    <3>2. CASE i = 1
      BY <2>1, <2>2, <2>4, <3>1, <3>2 DEF Due, Working
    <3>3. CASE i # 1
      BY <2>1, <2>2, <2>3, <2>4, <3>1, <3>3 DEF Due, Working
    <3> QED  BY <3>2, <3>3
  <2> QED  BY <1>2, <2>1, <2>4
<1>11. CASE Placed
  <2>1. /\ pc = "place" /\ dest > Len(rule.dests) /\ pc' \in {"recurse", "install"}
        /\ UNCHANGED <<rule, matches, cur, dest, alreadyMatched, fs>>
    BY <1>11 DEF Placed, searchVars
  <2>2. dest # 1
    <3>1. rule.dests = <<Keep>> /\ dest \in Nat
      BY <1>1, <2>1, KeptFacts DEF TypeInv, TypeOK
    <3> QED  BY <2>1, <3>1
  <2> QED  BY <1>2, <2>1, <2>2 DEF Due, Working
<1>12. ASSUME NEW p \in FsPath, Match(p)  PROVE Arrived'
  <2>1. pc = "match"
    BY <1>12 DEF Match, Yielded, MatchRootDir, MatchReserved, MatchExcluded, MatchAndReserve, MatchAndExclude
  <2>2. CASE MatchRootDir(p)
    BY <2>2 DEF MatchRootDir, Fail
  <2>3. CASE MatchReserved(p) \/ MatchExcluded(p)
    BY <2>1, <2>3, <1>3 DEF MatchReserved, MatchExcluded, Fail, placeVars, matcherVars, Working
  <2>4. CASE MatchAndExclude(p)
    <3>1. rule.type # "install"
      BY <2>4, KeptFacts DEF MatchAndExclude
    <3> QED  BY <1>4, <2>4, <3>1 DEF MatchAndExclude
  <2>5. CASE MatchAndReserve(p)
    <3> DEFINE m == [path |-> p, root |-> Root, into |-> Applicable]
    <3>1. /\ matches' = Append(matches, m) /\ alreadyMatched' = [alreadyMatched EXCEPT ![p] = Applicable]
          /\ UNCHANGED <<pc, rule, fs>> /\ rule.into # {}
      BY <2>5 DEF MatchAndReserve, Fail
    <3>2. rule.type = "install"
      BY <3>1, KeptFacts
    <3>3. m.path = p
      OBVIOUS
    <3> HIDE DEF m
    <3>4. /\ Len(matches') = Len(matches) + 1 /\ matches'[Len(matches) + 1] = m
          /\ \A i \in 1..Len(matches) : i \in 1..Len(matches') /\ matches'[i] = matches[i]
          /\ Len(matches) + 1 \in 1..Len(matches')
      BY <1>1, <3>1
    <3>5. ASSUME NEW q \in FsPath, Due(q)  PROVE Due(q)'
      BY <2>1, <3>1, <3>4, <3>5 DEF Due, Working
    <3>6. Due(p)'
      BY <2>1, <3>1, <3>2, <3>3, <3>4 DEF Due, Working
    <3>7. \A q \in FsPath \ {p} : alreadyMatched'[q] = alreadyMatched[q]
      BY <3>1, MatcherTypes
    <3> QED  BY <1>0, <3>1, <3>5, <3>6, <3>7 DEF Arrived, InPlace
  <2> QED  BY <1>12, <2>2, <2>3, <2>4, <2>5 DEF Match
<1>13. CASE PatternMatched
  <2>1. CASE rule.type = "install"
    <3>1. pc = "search" /\ pc' = "install" /\ UNCHANGED <<rule, matches, alreadyMatched, fs, dest, cur>>
      BY <1>13, <2>1 DEF PatternMatched, CompleteInv, Fail, Searched, placeVars, matcherVars
    <3> QED  BY <1>3, <3>1 DEF Working
  <2>2. CASE rule.type # "install"
    BY <1>4, <1>13, <2>2 DEF PatternMatched, Fail, matcherVars
  <2> QED  BY <2>1, <2>2
<1>14. CASE UNCHANGED vars
  BY <1>3, <1>14 DEF vars, searchVars, placeVars, matcherVars, Working
<1>15. CASE Next
  <2> USE DEF searchVars, placeVars, matcherVars
  <2>1. ASSUME NEW pkg \in Package, PerformStaging(pkg)  PROVE Arrived'
    BY <1>4, <2>1 DEF PerformStaging, StartRule, Working
  <2>2. ASSUME NEW r \in RuleSpace, PerformRule(r)  PROVE Arrived'
    BY <1>4, <2>2 DEF PerformRule, StartRule, Working
  <2>3. CASE EndOfRules \/ AllDetected
    BY <1>4, <2>3 DEF EndOfRules, AllDetected, Working
  <2>4. CASE SkipSearchDir \/ EnterSearchDir \/ LeaveSearchDir \/ FinishMatch
    BY <1>3, <2>4 DEF SkipSearchDir, EnterSearchDir, LeaveSearchDir, FinishMatch, Working
  <2>5. CASE NothingMatched
    BY <1>4, <2>5 DEF NothingMatched, Searched, Fail
  <2>6. CASE FinishPattern
    BY <1>4, <2>6 DEF FinishPattern
  <2>7. ASSUME NEW root \in CheckDirs, Detect(root)  PROVE Arrived'
    BY <1>4, <2>7 DEF Detect, Working
  <2>8. CASE Ended
    BY <1>14, <2>8 DEF Ended
  <2>9. ASSUME NEW r \in RuleSpace, RejectRule(r)  PROVE FALSE
    BY <2>9 DEF RejectRule, Fail
  <2>10. ASSUME NEW e \in FsPath, EntryError(e)  PROVE FALSE
    BY <2>10 DEF EntryError, Fail
  <2>11. CASE PlaceError
    BY <2>11 DEF PlaceError, Fail
  <2> QED  BY <1>8, <1>9, <1>10, <1>11, <1>12, <1>13, <1>15, <2>1, <2>2, <2>3, <2>4, <2>5, <2>6, <2>7,
              <2>8, <2>9, <2>10, <2>11 DEF Next
<1> QED  BY <1>14, <1>15

\* Once the matches of a rule are installed, each file that is reserved for a
\* package is in it, and stays there: no later rule puts anything in its place.
\* The hypotheses are those of the run claims; with destinations of their own two
\* rules may well install to the same path, the last of which wins.
THEOREM ReservedGetsInstalled == KeepsPaths => (Spec => []ReservedIsInstalled)
<1> SUFFICES ASSUME KeepsPaths PROVE Spec => []ReservedIsInstalled
  OBVIOUS
<1>1. Init => CompleteInv /\ MatchedInv /\ MirrorInv /\ ArrivedInv
  <2> SUFFICES ASSUME Init PROVE CompleteInv /\ MatchedInv /\ MirrorInv /\ ArrivedInv
    OBVIOUS
  <2>1. /\ rule.type = "none" /\ toStage = {} /\ pc = "rules"
        /\ \A d \in FsPath : alreadyMatched[d] = {}
        /\ \A pkg \in Package : fs[pkg] = [d \in {<<>>} |-> [kind |-> "dir", src |-> NoSource]]
    BY DEF Init, NoRule, KeepsPaths
  <2>2. CompleteInv
    BY <2>1 DEF CompleteInv, Claimed
  <2>3. MatchedInv
    BY <2>1 DEF MatchedInv, Working, Claimed
  <2>4. ASSUME NEW t, t = [d \in {<<>>} |-> [kind |-> "dir", src |-> NoSource]]  PROVE Mirrors(t)
    <3>1. ASSUME NEW y \in Seq(STRING), IsPrefix(y, <<>>)  PROVE y = <<>>
      <4>1. Len(y) = 0
        BY <3>1, LenProperties DEF IsPrefix
      <4> QED  BY <4>1, EmptySeq
    <3>2. DOMAIN t = {<<>>} /\ t[<<>>].kind = "dir" /\ <<>> \in Seq(STRING)
      BY <2>4
    <3> QED  BY <3>1, <3>2 DEF Mirrors
  <2>5. MirrorInv
    BY <2>1, <2>4 DEF MirrorInv
  <2>6. ArrivedInv
    BY <2>1 DEF ArrivedInv, Arrived
  <2> QED  BY <2>2, <2>3, <2>5, <2>6
<1>2. ClaimInv /\ CompleteInv /\ [Next]_vars => CompleteInv'
  <2>1. AllEnabled
    BY DEF KeepsPaths
  <2> QED  BY <2>1, CompleteStep
<1>3. /\ ClaimInv /\ CompleteInv /\ MatchedInv /\ MirrorInv /\ ArrivedInv /\ [Next]_vars
      => MatchedInv' /\ MirrorInv' /\ ArrivedInv'
  BY MatchedStep, MirrorStep, ArrivedStep DEF ArrivedInv
<1>4. ClaimInv /\ MatchedInv /\ ArrivedInv => ReservedIsInstalled
  <2> SUFFICES ASSUME ClaimInv, ArrivedInv, Idle,
                      NEW p \in FsPath, ~ IsDir(p), NEW pkg \in alreadyMatched[p]
               PROVE  InstalledIn(pkg, p)
    BY DEF ReservedIsInstalled
  <2>1. InPlace(pkg, p)
    BY DEF Idle, ArrivedInv, Arrived, Due, Working
  <2> QED  BY <2>1 DEF InPlace, InstalledIn
<1> QED  BY <1>1, <1>2, <1>3, <1>4, ClaimsAlwaysHold, PTL DEF Spec
=============================================================================
