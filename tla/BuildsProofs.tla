---------------------------- MODULE BuildsProofs -----------------------------
(***************************************************************************)
(* Proofs about Builds, for every set of packages, every source package and *)
(* every number of tasks: the directories of two rules are apart, and a     *)
(* build rule runs in the environment that is documented for it.            *)
(***************************************************************************)
EXTENDS Builds, SequenceTheorems, FiniteSetTheorems, TLAPS

\* Where there is a rule at work.
Acting == {"clean", "configure", "build", "test", "install", "leave"}

\* The rules of a process are those of the manifest, or the one of a build
\* system that was detected; idx is the number of one of them.
RulesOfProcess ==
    /\ manifest \in Manifests
    /\ IF manifest.given THEN rules \in {<<>>, manifest.rules}
       ELSE rules = <<>> \/ \E s \in Systems : rules = <<Automatic(s)>>
    /\ idx \in Nat
    /\ stage = "rule" => idx # 0
    /\ stage \in Acting => idx \in 1..Len(rules)

\* A directory that debputy derived is one of its rule's.
Owned(e) ==
    Derived(e.place) =>
        IF manifest.given
        THEN /\ e.by \in DOMAIN manifest.rules
             /\ e.place \in {BuildPlace(manifest.rules, e.by), DestPlace(manifest.rules, e.by)}
        ELSE e.by = 1

DiskIsOwned == \A e \in disk : Owned(e)

Apart == RulesOfProcess /\ DiskIsOwned

-----------------------------------------------------------------------------
(* The stems.                                                               *)

\* assign_stems never gives two rules of a manifest the same stem.
LEMMA StemsDiffer ==
    ASSUME NEW m \in Manifests,
           NEW i \in DOMAIN m.rules, NEW j \in DOMAIN m.rules,
           Stems(m.rules)[i] = Stems(m.rules)[j]
    PROVE  i = j
<1> DEFINE rs == m.rules
           reserved == {rs[k].name : k \in DOMAIN rs}
           unnamed == {k \in DOMAIN rs : rs[k].name = NoName}
           debOnly == {k \in unnamed : rs[k].for = Deb}
           udebOnly == {k \in unnamed : rs[k].for = Udeb} \ debOnly
           only(p) == {k \in unnamed : rs[k].for = {p}}
           lone(k) == {p \in Package : only(p) = {k} /\ p \notin reserved}
           stem(k) ==
               IF Len(rs) = 1 THEN ""
               ELSE IF k \notin unnamed THEN rs[k].name
               ELSE IF debOnly = {k} /\ "deb" \notin reserved THEN "deb"
               ELSE IF udebOnly = {k} /\ "udeb" \notin reserved THEN "udeb"
               ELSE IF lone(k) # {} THEN CHOOSE p \in lone(k) : TRUE
               ELSE Numbered[k]
<1>1. \A k \in DOMAIN rs : Stems(rs)[k] = stem(k)
  BY DEF Stems
<1>2. stem(i) = stem(j)
  BY <1>1
<1>3. CASE Len(rs) = 1
  BY <1>3, NamesAssumption
<1>4. CASE Len(rs) # 1
  <2>0. ASSUME NEW k, lone(k) # {}  PROVE (CHOOSE p \in lone(k) : TRUE) \in lone(k)
    <3> HIDE DEF lone
    <3> QED  BY <2>0
  <2>1. \A k \in DOMAIN rs :
          \/ k \notin unnamed /\ stem(k) = rs[k].name
          \/ k \in unnamed /\ debOnly = {k} /\ stem(k) = "deb" /\ "deb" \notin reserved
          \/ k \in unnamed /\ udebOnly = {k} /\ stem(k) = "udeb" /\ "udeb" \notin reserved
          \/ k \in unnamed /\ stem(k) \in lone(k)
          \/ k \in unnamed /\ stem(k) = Numbered[k]
    <3> HIDE DEF rs, unnamed, debOnly, udebOnly, lone, reserved
    <3> QED  BY <1>4, <2>0
  <2>2. \A k \in DOMAIN rs : rs[k].name \in reserved
    OBVIOUS
  <2>3. \A k \in DOMAIN rs : stem(k) \in lone(k) =>
            stem(k) \in Package /\ stem(k) \notin reserved /\ only(stem(k)) = {k}
    OBVIOUS
  <2> HIDE DEF stem, reserved, only, lone, debOnly, udebOnly
  <2>4. \A k \in DOMAIN rs : k \in DOMAIN Numbered /\ Numbered[k] \notin reserved
    BY NamesAssumption DEF reserved
  <2>5. \A k \in DOMAIN rs : k \in unnamed <=> stem(k) \notin reserved
    BY <2>1, <2>2, <2>3, <2>4
  <2>6. CASE i \notin unnamed
    <3>1. stem(i) = rs[i].name /\ stem(j) = rs[j].name
      BY <1>2, <2>1, <2>5, <2>6
    <3> QED
      BY <1>2, <2>6, <3>1, NamesAssumption
  <2>7. CASE i \in unnamed
    <3>1. \A k \in {i, j} :
            \/ debOnly = {k} /\ stem(k) = "deb"
            \/ udebOnly = {k} /\ stem(k) = "udeb"
            \/ stem(k) \in Package /\ only(stem(k)) = {k}
            \/ k \in DOMAIN Numbered /\ stem(k) = Numbered[k]
      BY <1>2, <2>1, <2>3, <2>4, <2>5, <2>7
    <3>3. /\ "deb" \notin Package /\ "udeb" \notin Package
          /\ \A k \in DOMAIN Numbered : Numbered[k] \notin Package \cup {"deb", "udeb"}
          /\ \A k, l \in DOMAIN Numbered : Numbered[k] = Numbered[l] => k = l
      BY NamesAssumption
    <3> DEFINE si == stem(i)  sj == stem(j)
    <3>4. si = sj
      BY <1>2
    <3> HIDE DEF si, sj, unnamed
    <3>5. CASE debOnly = {i} /\ si = "deb"
      <4>1. debOnly = {j}
        BY <3>1, <3>3, <3>4, <3>5 DEF si, sj
      <4> QED
        BY <3>5, <4>1
    <3>6. CASE udebOnly = {i} /\ si = "udeb"
      <4>1. udebOnly = {j}
        BY <3>1, <3>3, <3>4, <3>6 DEF si, sj
      <4> QED
        BY <3>6, <4>1
    <3>7. CASE si \in Package /\ only(si) = {i}
      <4>1. sj \in Package /\ only(sj) = {j}
        BY <3>1, <3>3, <3>4, <3>7 DEF si, sj
      <4> QED
        BY <3>4, <3>7, <4>1
    <3>8. CASE i \in DOMAIN Numbered /\ si = Numbered[i]
      <4>1. j \in DOMAIN Numbered /\ sj = Numbered[j]
        BY <3>1, <3>3, <3>4, <3>8 DEF si, sj
      <4> QED
        BY <3>3, <3>4, <3>8, <4>1
    <3> QED
      BY <3>1, <3>5, <3>6, <3>7, <3>8 DEF si
  <2> QED
    BY <2>6, <2>7
<1> QED
  BY <1>3, <1>4

\* Nor the same directory to build in or to install into.
LEMMA DirectoriesDiffer ==
    ASSUME NEW m \in Manifests,
           NEW i \in DOMAIN m.rules, NEW j \in DOMAIN m.rules,
           NEW p \in {BuildPlace(m.rules, i), DestPlace(m.rules, i)},
           p \in {BuildPlace(m.rules, j), DestPlace(m.rules, j)},
           Derived(p)
    PROVE  i = j
<1> DEFINE rs == m.rules
           tag(k) == IF rs[k].name # NoName THEN rs[k].name ELSE Stems(rs)[k]
<1>1. ASSUME NEW k \in DOMAIN rs, p \in {BuildPlace(rs, k), DestPlace(rs, k)}
      PROVE  p = BuildDir(tag(k)) \/ p = DestDir(Stems(rs)[k])
  <2>1. \A x : ~ Derived(GivenDir(x)) /\ ~ Derived(SourceDir(x)) /\ ~ Derived(PackageDir(x))
    BY DEF Derived, GivenDir, SourceDir, PackageDir
  <2>2. BuildPlace(rs, k) = BuildDir(tag(k)) \/ ~ Derived(BuildPlace(rs, k))
    BY <2>1 DEF BuildPlace
  <2>3. DestPlace(rs, k) = DestDir(Stems(rs)[k]) \/ ~ Derived(DestPlace(rs, k))
    BY <2>1 DEF DestPlace
  <2> QED
    BY <1>1, <2>2, <2>3
<1>2. ASSUME NEW k \in DOMAIN rs, Len(rs) # 1
      PROVE  tag(k) = Stems(rs)[k]
  BY <1>2 DEF Stems
<1>3. CASE Len(rs) = 1
  BY <1>3, NamesAssumption
<1>4. CASE Len(rs) # 1
  <2>1. /\ p \in {BuildDir(Stems(rs)[i]), DestDir(Stems(rs)[i])}
        /\ p \in {BuildDir(Stems(rs)[j]), DestDir(Stems(rs)[j])}
    BY <1>1, <1>2, <1>4
  <2>2. Stems(rs)[i] = Stems(rs)[j]
    BY <2>1 DEF BuildDir, DestDir
  <2> QED
    BY <2>2, StemsDiffer
<1> QED
  BY <1>3, <1>4

-----------------------------------------------------------------------------
(* The rules of a process.                                                  *)

LEMMA ManifestStays == [Next]_vars => manifest' = manifest
BY DEF Next, vars, StartGiven, StartDetected, StartAmbiguous, Starts, SkipRule, EnterEnv,
       LeaveEnv, InvalidRule, BuildStep, ConfigureCrashes, Assemble, StepFails, CleanStep,
       RulesDone, Remove, RemovalFails, Goes, Ends

LEMMA RulesStay ==
    ASSUME RulesOfProcess, [Next]_vars
    PROVE  RulesOfProcess'
<1> USE DEF RulesOfProcess, Acting
<1>1. manifest' = manifest
  BY ManifestStays
<1>2. ASSUME NEW t \in Tasks, StartGiven(t) \/ StartDetected(t)
      PROVE  RulesOfProcess'
  BY <1>1, <1>2 DEF StartGiven, StartDetected, Begin, Starts, Remaining, Options
<1>3. ASSUME NEW t \in Tasks, StartAmbiguous(t)
      PROVE  RulesOfProcess'
  BY <1>1, <1>3 DEF StartAmbiguous, Starts
<1>4. CASE SkipRule
  BY <1>1, <1>4 DEF SkipRule, Goes, MoreRules
<1>5. CASE EnterEnv
  <2>1. idx \in 1..Len(rules)
    BY <1>5 DEF EnterEnv, MoreRules
  <2> QED
    BY <1>1, <1>5, <2>1 DEF EnterEnv, Goes
<1>6. CASE LeaveEnv
  BY <1>1, <1>6 DEF LeaveEnv, Goes
<1>7. CASE BuildStep
  BY <1>1, <1>7 DEF BuildStep, Goes, Follows
<1>8. CASE CleanStep
  BY <1>1, <1>8 DEF CleanStep, Goes
<1>9. CASE RulesDone
  BY <1>1, <1>9 DEF RulesDone, Goes, Ends
<1>10. CASE Remove
  BY <1>1, <1>10 DEF Remove, Goes, Ends, Removal, NextRemoval
<1>11. CASE InvalidRule \/ ConfigureCrashes \/ Assemble \/ StepFails \/ RemovalFails
  BY <1>1, <1>11 DEF InvalidRule, ConfigureCrashes, Assemble, StepFails, RemovalFails, Ends
<1>12. CASE UNCHANGED vars
  BY <1>1, <1>12 DEF vars
<1> QED
  BY <1>2, <1>3, <1>4, <1>5, <1>6, <1>7, <1>8, <1>9, <1>10, <1>11, <1>12 DEF Next

-----------------------------------------------------------------------------
(* What is in the source tree.                                              *)

\* What a step makes, or leaves when it fails, belongs to its rule.
LEMMA ProductIsOwned ==
    ASSUME RulesOfProcess, NEW e \in Product \cup Failed
    PROVE  Owned(e)
<1> SUFFICES ASSUME Derived(e.place) PROVE Owned(e)
  BY DEF Owned
<1> DEFINE b == BuildPlace(rules, idx)
           d == DestPlace(rules, idx)
<1>1. stage \in {"configure", "build", "install"}
      /\ e \in {Left(b, idx, Rule.system), Left(d, idx, Rule.system), Left(b, idx, "failed")}
  <2>1. /\ ~ Derived(Scratch) /\ ~ Derived(Reconf) /\ ~ Derived(Debhelper)
    BY DEF Derived, Scratch, Reconf, Debhelper
  <2>2. \A p \in {Scratch, Reconf, Debhelper} : \A by, s : e # Left(p, by, s)
    BY <2>1 DEF Left
  <2> QED
    BY <2>2 DEF Product, Configured, Autoreconf, Failed, Work
<1>2. idx \in 1..Len(rules) /\ e.by = idx /\ e.place \in {b, d}
  BY <1>1 DEF RulesOfProcess, Acting, Left
<1>3. CASE manifest.given
  <2>1. rules = manifest.rules
    BY <1>2, <1>3 DEF RulesOfProcess
  <2> QED
    BY <1>2, <1>3, <2>1, NamesAssumption DEF Owned, RulesOfProcess
<1>4. CASE ~ manifest.given
  <2>1. Len(rules) = 1
    BY <1>2, <1>4 DEF RulesOfProcess
  <2> QED
    BY <1>2, <1>4, <2>1 DEF Owned
<1> QED
  BY <1>3, <1>4

\* Only the steps of rules, and the assembly, add to the source tree.
LEMMA DiskGrows == [Next]_vars => disk' \subseteq disk \cup Product \cup Failed
<1> SUFFICES ASSUME [Next]_vars PROVE disk' \subseteq disk \cup Product \cup Failed
  OBVIOUS
<1>1. CASE UNCHANGED vars
  BY <1>1 DEF vars
<1>2. ASSUME NEW t \in Tasks, StartGiven(t) \/ StartDetected(t) \/ StartAmbiguous(t)
      PROVE  disk' = disk
  BY <1>2 DEF StartGiven, StartDetected, StartAmbiguous, Starts
<1>3. CASE SkipRule \/ EnterEnv \/ LeaveEnv \/ InvalidRule \/ RulesDone
  BY <1>3 DEF SkipRule, EnterEnv, LeaveEnv, InvalidRule, RulesDone
<1>4. CASE BuildStep \/ ConfigureCrashes \/ Assemble \/ StepFails
  BY <1>4 DEF BuildStep, ConfigureCrashes, Assemble, StepFails
<1>5. CASE CleanStep \/ Remove \/ RemovalFails
  BY <1>5 DEF CleanStep, Remove, RemovalFails
<1> QED
  BY <1>1, <1>2, <1>3, <1>4, <1>5 DEF Next

LEMMA DiskStaysOwned ==
    ASSUME Apart, [Next]_vars
    PROVE  DiskIsOwned'
<1>1. disk' \subseteq disk \cup Product \cup Failed
  BY DiskGrows
<1>2. manifest' = manifest
  BY ManifestStays
<1>3. ASSUME NEW e \in disk' PROVE Owned(e)
  BY <1>1, <1>3, ProductIsOwned DEF Apart, DiskIsOwned
<1> QED
  BY <1>2, <1>3 DEF DiskIsOwned, Owned

\* Two rules never share a directory that debputy derives for them.
THEOREM RulesStayApart == Spec => []BuildsAreApart
<1>1. Init => Apart
  BY DEF Init, Apart, RulesOfProcess, DiskIsOwned, Acting
<1>2. Apart /\ [Next]_vars => Apart'
  BY RulesStay, DiskStaysOwned DEF Apart
<1>3. Apart => BuildsAreApart
  <2> SUFFICES ASSUME Apart, NEW e \in disk, NEW f \in disk,
                      e.place = f.place, Derived(e.place)
               PROVE  e.by = f.by
    BY DEF BuildsAreApart
  <2>1. Owned(e) /\ Owned(f)
    BY DEF Apart, DiskIsOwned
  <2> QED
    BY <2>1, DirectoriesDiffer DEF Owned, Apart, RulesOfProcess
<1> QED
  BY <1>1, <1>2, <1>3, PTL DEF Spec

-----------------------------------------------------------------------------
(* Environments.                                                            *)

Clear == Necessary(BaseEnv)
Own == Updated(Rule.env, Clear)

\* How often the environment of the rule at work has been entered.
Outside ==
    /\ backups = <<>>
    /\ environ \in {BaseEnv, Clear}
    /\ stage \notin Acting

Once ==
    /\ backups = <<Clear>>
    /\ idx \in 1..Len(rules)
    /\ stage \in Acting \/ (stage = "rule" /\ ~ manifest.given)
    /\ stage # "leave" => environ = Own

Twice ==
    /\ backups = <<Clear, Necessary(Own)>>
    /\ idx \in 1..Len(rules)
    /\ ~ manifest.given
    /\ stage \in Acting
    /\ stage # "leave" => environ = Updated(Rule.env, Necessary(Own))

WayBackIsKept ==
    /\ task = "none" => stage = "none" /\ Outside
    /\ Outside \/ Once \/ Twice

LEMMA ClearIsClear == Necessary(Clear) = Clear
BY DEF Clear, Necessary, Without

LEMMA TwoBackups ==
    ASSUME NEW x, NEW y
    PROVE  /\ Append(<<x>>, y) = <<x, y>>
           /\ Len(<<x, y>>) = 2 /\ SubSeq(<<x, y>>, 1, 1) = <<x>>
<1> DEFINE S == {x, y}
           app == Append(<<x>>, y)
           sub == SubSeq(<<x, y>>, 1, 1)
<1>1. <<x>> \in Seq(S) /\ <<x, y>> \in Seq(S) /\ Len(<<x>>) = 1 /\ Len(<<x, y>>) = 2
  OBVIOUS
<1>2. app \in Seq(S) /\ Len(app) = 2 /\ app[1] = x /\ app[2] = y
  <2>1. y \in S
    OBVIOUS
  <2> HIDE DEF S
  <2> QED
    BY <1>1, <2>1, AppendProperties
<1>3. \A k \in 1..2 : app[k] = <<x, y>>[k]
  BY <1>2
<1>4. sub \in Seq(S) /\ Len(sub) = 1 /\ sub[1] = x
  BY SubSeqProperties
<1>5. \A k \in 1..1 : sub[k] = <<x>>[k]
  BY <1>4
<1> HIDE DEF S, app, sub
<1>6. app = <<x, y>>
  BY <1>1, <1>2, <1>3, SeqEqual
<1>7. sub = <<x>>
  BY <1>1, <1>4, <1>5, SeqEqual
<1> QED
  BY <1>1, <1>6, <1>7 DEF app, sub

LEMMA WayBackStaysKept ==
    ASSUME RulesOfProcess, WayBackIsKept, [Next]_vars
    PROVE  WayBackIsKept'
<1> USE DEF WayBackIsKept, Acting
<1>1. ASSUME NEW outcome, Ends(outcome)
      PROVE  WayBackIsKept'
  BY <1>1 DEF Ends, Outside
<1>2. ASSUME NEW t \in Tasks, StartGiven(t) \/ StartDetected(t)
      PROVE  WayBackIsKept'
  <2>1. task = "none" /\ task' # "none" /\ stage' = "rule"
        /\ UNCHANGED <<environ, backups>>
    BY <1>2 DEF StartGiven, StartDetected, Begin, Starts, Tasks
  <2> QED
    BY <2>1 DEF Outside, Clear
<1>3. ASSUME NEW t \in Tasks, StartAmbiguous(t)
      PROVE  WayBackIsKept'
  BY <1>3 DEF StartAmbiguous, Starts, Outside
<1>4. CASE SkipRule
  <2>1. Outside
    BY <1>4 DEF SkipRule, MoreRules, Skipped, Once, Twice
  <2> QED
    BY <1>4, <2>1 DEF SkipRule, MoreRules, Goes, Outside, Clear
<1>5. CASE EnterEnv
  <2> USE <1>5 DEF EnterEnv
  <2>1. /\ idx' = idx /\ rules' = rules /\ manifest' = manifest /\ task' = task
        /\ idx \in 1..Len(rules) /\ stage = "rule"
    BY DEF Goes, MoreRules, RulesOfProcess
  <2>4. Rule' = Rule /\ Own' = Own
    BY <2>1 DEF Rule, Own, Clear
  <2>5. task # "none"
    BY <2>1
  <2>2. CASE Outside
    <3>1. Necessary(environ) = Clear
      BY <2>2, ClearIsClear DEF Outside, Clear
    <3>2. backups' = <<Clear>> /\ environ' = Own'
      BY <2>2, <2>4, <3>1 DEF Outside, Own
    <3>3. stage' \in {"clean", "configure"} \/ (stage' = "rule" /\ ~ manifest.given)
      BY <2>2 DEF Goes, Outside, Nesting
    <3> QED
      BY <2>1, <2>5, <3>2, <3>3 DEF Once, Clear
  <2>3. CASE Once
    <3>1. environ = Own /\ ~ manifest.given
      BY <2>3 DEF Once, MoreRules
    <3>2. backups' = <<Clear, Necessary(Own)>> /\ environ' = Updated(Rule.env, Necessary(Own))
      BY <2>3, <3>1, TwoBackups DEF Once
    <3>3. stage' \in {"clean", "configure"}
      BY <2>3 DEF Goes, Once, Nesting
    <3> QED
      BY <2>1, <2>4, <2>5, <3>1, <3>2, <3>3 DEF Twice, Clear
  <2> QED
    BY <2>2, <2>3 DEF Twice, MoreRules
<1>6. CASE LeaveEnv
  <2> USE <1>6 DEF LeaveEnv
  <2>1. /\ rules' = rules /\ manifest' = manifest /\ task' = task /\ task # "none"
    BY DEF Goes, Outside
  <2>2. CASE Once
    <3>1. backups' = <<>> /\ environ' = Clear /\ stage' = "rule"
      BY <2>2 DEF Once, Goes
    <3> QED
      BY <2>1, <3>1 DEF Outside, Clear
  <2>3. CASE Twice
    <3>1. backups' = <<Clear>> /\ idx' = idx /\ stage' = "leave"
      <4>1. backups = <<Clear, Necessary(Own)>>
        BY <2>3 DEF Twice
      <4>2. Len(backups) = 2 /\ SubSeq(backups, 1, 1) = <<Clear>>
        BY <4>1, TwoBackups
      <4> QED
        BY <4>2 DEF Goes
    <3> QED
      BY <2>1, <2>3, <3>1 DEF Once, Twice, Clear
  <2> QED
    BY <2>2, <2>3 DEF Outside
<1>7. CASE BuildStep \/ CleanStep
  <2>1. /\ stage' \in Acting /\ stage \in Acting \ {"leave"} /\ task' = task
        /\ UNCHANGED <<manifest, rules, idx, environ, backups>>
    BY <1>7 DEF BuildStep, CleanStep, Goes, Follows
  <2>2. Own' = Own /\ Rule' = Rule
    BY <2>1 DEF Own, Rule, Clear
  <2> QED
    BY <2>1, <2>2 DEF Outside, Once, Twice, Clear
<1>8. CASE RulesDone \/ Remove
  <2>1. Outside
    BY <1>8 DEF RulesDone, Remove, Removal, Once, Twice
  <2>2. \/ \E outcome : Ends(outcome)
        \/ /\ stage' \notin Acting /\ task' = task
           /\ UNCHANGED <<environ, backups>>
           /\ task # "none"
    BY <1>8, <2>1 DEF RulesDone, Remove, Goes, NextRemoval, Removal
  <2> QED
    BY <1>1, <2>1, <2>2 DEF Outside, Clear
<1>9. CASE InvalidRule \/ ConfigureCrashes \/ Assemble \/ StepFails \/ RemovalFails
  BY <1>1, <1>9 DEF InvalidRule, ConfigureCrashes, Assemble, StepFails, RemovalFails
<1>10. CASE UNCHANGED vars
  BY <1>10 DEF vars, Outside, Once, Twice, Own, Rule, Clear
<1> QED
  BY <1>2, <1>3, <1>4, <1>5, <1>6, <1>7, <1>8, <1>9, <1>10 DEF Next

\* Every step of a build rule runs in the environment that is documented for
\* it, if the default environment makes no difference when it is entered twice:
\* a build system that was detected builds in it twice over.
THEOREM EnvironmentsAreDocumented ==
    ASSUME Updated(DefaultEnv, Necessary(Updated(DefaultEnv, Clear))) = Updated(DefaultEnv, Clear)
    PROVE  Spec => []EnvironmentIsDocumented
<1> DEFINE Inv == RulesOfProcess /\ WayBackIsKept
<1>1. Init => Inv
  BY DEF Init, RulesOfProcess, WayBackIsKept, Outside, Acting
<1>2. Inv /\ [Next]_vars => Inv'
  BY RulesStay, WayBackStaysKept
<1>3. Inv => EnvironmentIsDocumented
  <2> SUFFICES ASSUME Inv, stage \in {"configure", "build", "test", "install", "clean"}
               PROVE  environ = Own
    BY DEF EnvironmentIsDocumented, Own, Clear
  <2>1. CASE Once
    BY <2>1 DEF Once
  <2>2. CASE Twice
    <3>1. PICK s \in Systems : rules = <<Automatic(s)>>
      BY <2>2 DEF Twice, RulesOfProcess
    <3>2. idx = 1 /\ rules[1] = Automatic(s)
      BY <2>2, <3>1 DEF Twice
    <3>3. Automatic(s).env = DefaultEnv
      BY DEF Automatic
    <3>4. Rule = Automatic(s)
      BY <3>2 DEF Rule
    <3> QED
      BY <2>2, <3>3, <3>4 DEF Twice, Own
  <2> QED
    BY <2>1, <2>2 DEF WayBackIsKept, Outside, Acting
<1> QED
  BY <1>1, <1>2, <1>3, PTL DEF Spec

-----------------------------------------------------------------------------
(* Detection.                                                               *)

\* What is detected in a root with these files, and what is left of it.
Found(files) == {s \in Systems : Detects(s, files)}
LeftOver(files) == Found(files) \ UNION {Shadows(s) : s \in Found(files)}

\* A build system that was detected is detected again when its own work lies
\* in the source root.
LEMMA DetectedAgain ==
    ASSUME NEW files, NEW s \in Systems, LeftOver(files) = {s},
           NEW made, made \subseteq Generates(s)
    PROVE  LeftOver(files \cup made) = {s}
<1> DEFINE all == files \cup made
<1>1. CASE made = {}
  <2>1. all = files
    BY <1>1
  <2> QED
    BY <2>1
<1>2. CASE made # {}
  <2>1. /\ s \in {"perl-makemaker", "autoconf", "qmake", "qmake6"}
        /\ made = {"Makefile"}
    BY <1>2 DEF Generates
  <2>2. Shadows(s) = {"debhelper", "make"}
    <3>1. s \notin {"debhelper", "make", "perl-build"}
      BY <2>1
    <3> QED
      BY <2>1, <3>1 DEF Shadows
  <2>3. s \in Found(files) /\ files # {}
    <3>1. s \in Found(files)
      BY DEF LeftOver
    <3> QED
      BY <2>1, <3>1 DEF Found, Detects
  <2>4. Found(all) = Found(files) \cup {"make"}
    <3>1. ASSUME NEW t \in Systems, t # "make" PROVE Detects(t, all) <=> Detects(t, files)
      BY <2>1, <2>3, <3>1 DEF Detects
    <3>2. "make" \in Systems /\ Detects("make", all)
      BY <2>1 DEF Systems, NotSupported, Detects
    <3> HIDE DEF all
    <3> QED
      BY <3>1, <3>2 DEF Found
  <2>5. Shadows("make") = {"debhelper"}
    BY DEF Shadows
  <2> HIDE DEF all
  <2>6. UNION {Shadows(t) : t \in Found(all)} = UNION {Shadows(t) : t \in Found(files)}
    <3>1. UNION {Shadows(t) : t \in Found(all)} =
              (UNION {Shadows(t) : t \in Found(files)}) \cup Shadows("make")
      BY <2>4
    <3>2. Shadows("make") \subseteq UNION {Shadows(t) : t \in Found(files)}
      BY <2>2, <2>3, <2>5
    <3> QED
      BY <3>1, <3>2
  <2>7. "make" \in UNION {Shadows(t) : t \in Found(files)}
    BY <2>2, <2>3
  <2> QED
    BY <2>4, <2>6, <2>7 DEF LeftOver, all
<1> QED
  BY <1>1, <1>2

\* The rules every task of the source package has.
ThePick == CHOOSE s \in Systems : LeftOver(manifest.upstream) = {s}
Picked == \E s \in Systems : LeftOver(manifest.upstream) = {s}
TheRules ==
    IF manifest.given THEN manifest.rules
    ELSE IF Picked THEN <<Automatic(ThePick)>> ELSE <<>>

\* Those that some task performs; a clean performs all of them.
Performed(i) ==
    /\ i \in DOMAIN TheRules
    /\ manifest.given => /\ TheRules[i].for \cap (ArchAll \cup ArchAny) # {}
                         /\ TheRules[i].holds

\* What is in the source tree is the work of a rule that is performed, or
\* debputy's own.
Work0 == Left(Scratch, 0, "none")
WorkOf(e) ==
    /\ Performed(e.by)
    /\ \/ /\ e.system = TheRules[e.by].system
          /\ e.place \in {BuildPlace(TheRules, e.by), DestPlace(TheRules, e.by), Reconf, Debhelper}
       \/ /\ e.system = "failed"
          /\ e.place = BuildPlace(TheRules, e.by)

WorkInv ==
    /\ \A e \in disk : e = Work0 \/ WorkOf(e)
    /\ task # "none" \/ disk # {} => manifest.given \/ Picked \/ Found(manifest.upstream) = {}
    /\ (task = "none") <=> (stage = "none")
    /\ task # "none" => rules = TheRules
    /\ stage \in Acting => Performed(idx)
    /\ RulesOfProcess

LEMMA TheOneRule ==
    ASSUME manifest \in Manifests, NEW i \in DOMAIN TheRules
    PROVE  /\ manifest.given => TheRules = manifest.rules
           /\ ~ manifest.given => Picked /\ i = 1 /\ TheRules[i] = Automatic(ThePick)
           /\ i \in Nat \ {0}
<1>1. CASE manifest.given
  BY <1>1, NamesAssumption DEF TheRules
<1>2. CASE ~ manifest.given
  <2>1. Picked
    BY <1>2 DEF TheRules
  <2>2. TheRules = <<Automatic(ThePick)>>
    BY <1>2, <2>1 DEF TheRules
  <2>3. i = 1
    BY <2>2
  <2> QED
    BY <1>2, <2>1, <2>2, <2>3
<1> QED
  BY <1>1, <1>2

\* Whatever was built, the detection ends as it did in upstream's files.
LEMMA DetectionStays ==
    ASSUME WorkInv, ~ manifest.given
    PROVE  /\ Picked => Remaining = {ThePick} /\ ThePick \in Systems
           /\ ~ Picked => Remaining = LeftOver(manifest.upstream)
                          /\ Options = Found(manifest.upstream)
<1> DEFINE made == UNION {Generates(e.system) : e \in At(SourceDir("."))}
<1>1. Options = Found(manifest.upstream \cup made) /\ Remaining = LeftOver(manifest.upstream \cup made)
  BY DEF Options, Remaining, Found, LeftOver, RootFiles
<1>2. ASSUME NEW e \in At(SourceDir("."))
      PROVE  Picked /\ e.system \in {ThePick, "failed"}
  <2>1. e \in disk /\ e # Work0
    <3>1. Work0.place # SourceDir(".")
      BY DEF Work0, Left, SourceDir, Scratch
    <3> QED
      BY <1>2, <3>1 DEF At
  <2>2. WorkOf(e)
    BY <2>1 DEF WorkInv
  <2>3. Picked /\ TheRules[e.by] = Automatic(ThePick)
    BY <2>2, TheOneRule DEF WorkOf, Performed, WorkInv, RulesOfProcess
  <2>4. Automatic(ThePick).system = ThePick
    BY DEF Automatic
  <2>5. e.system = TheRules[e.by].system \/ e.system = "failed"
    BY <2>2 DEF WorkOf
  <2> QED
    BY <2>3, <2>4, <2>5
<1>3. CASE Picked
  <2>1. ThePick \in Systems /\ LeftOver(manifest.upstream) = {ThePick}
    BY <1>3 DEF Picked, ThePick
  <2>2. Generates("failed") = {}
    BY DEF Generates
  <2>3. made \subseteq Generates(ThePick)
    BY <1>2, <2>2
  <2> HIDE DEF made
  <2> QED
    BY <1>1, <1>3, <2>1, <2>3, DetectedAgain
<1>4. CASE ~ Picked
  <2>1. made = {}
    BY <1>2, <1>4
  <2> HIDE DEF made
  <2>2. manifest.upstream \cup made = manifest.upstream
    BY <2>1
  <2> QED
    BY <1>1, <1>4, <2>2
<1> QED
  BY <1>3, <1>4

\* What a step makes, or leaves when it fails, is the work of its rule.
LEMMA ProductIsWork ==
    ASSUME WorkInv, NEW e \in Product \cup Failed
    PROVE  e = Work0 \/ WorkOf(e)
<1>1. CASE stage = "assemble"
  BY <1>1 DEF Product, Failed, Work0
<1>2. CASE stage # "assemble"
  <2>1. stage \in {"configure", "build", "install"}
    BY <1>2 DEF Product, Failed
  <2>2. Performed(idx) /\ rules = TheRules
    BY <2>1 DEF WorkInv, Acting
  <2>3. \/ \E p \in {BuildPlace(rules, idx), DestPlace(rules, idx), Reconf, Debhelper} :
              e = Left(p, idx, Rule.system)
        \/ e = Left(BuildPlace(rules, idx), idx, "failed")
    BY <2>1 DEF Product, Configured, Autoreconf, Failed, Work
  <2>4. e.by = idx
    BY <2>3 DEF Left
  <2>5. \/ e.system = Rule.system /\ e.place \in {BuildPlace(rules, idx), DestPlace(rules, idx), Reconf, Debhelper}
        \/ e.system = "failed" /\ e.place = BuildPlace(rules, idx)
    BY <2>3 DEF Left
  <2> QED
    BY <2>2, <2>4, <2>5 DEF WorkOf, Rule
<1> QED
  BY <1>1, <1>2


\* The rules of a task that starts, and what keeps one from starting.
LEMMA StartsWithTheRules ==
    ASSUME WorkInv, NEW t \in Tasks, StartGiven(t) \/ StartDetected(t)
    PROVE  /\ rules' = TheRules
           /\ manifest.given \/ Picked \/ Found(manifest.upstream) = {}
<1>1. CASE StartGiven(t)
  BY <1>1 DEF StartGiven, Begin, TheRules
<1>2. CASE StartDetected(t)
  <2>1. ~ manifest.given
    BY <1>2 DEF StartDetected
  <2>2. CASE Picked
    <3>1. Remaining = {ThePick} /\ ThePick \in Systems
      BY <2>1, <2>2, DetectionStays
    <3>2. rules' = <<Automatic(ThePick)>>
      BY <1>2, <3>1 DEF StartDetected, Begin
    <3> QED
      BY <2>1, <2>2, <3>2 DEF TheRules
  <2>3. CASE ~ Picked
    <3>1. Remaining = LeftOver(manifest.upstream) /\ Options = Found(manifest.upstream)
      BY <2>1, <2>3, DetectionStays
    <3>2. \A s : Remaining = {s} => s \in Systems
      BY DEF Remaining, Options
    <3>3. \A s \in Remaining : Remaining # {s}
      BY <2>3, <3>1, <3>2 DEF Picked
    <3>4. Options = {} /\ rules' = <<>>
      BY <1>2, <3>3 DEF StartDetected, Begin
    <3> QED
      BY <2>1, <2>3, <3>1, <3>4 DEF TheRules
  <2> QED
    BY <2>2, <2>3
<1> QED
  BY <1>1, <1>2

LEMMA WorkStep ==
    ASSUME WorkInv, [Next]_vars
    PROVE  WorkInv'
<1>1. manifest' = manifest
  BY ManifestStays
<1>2. TheRules' = TheRules /\ (Picked' <=> Picked)
  BY <1>1 DEF TheRules, Picked, ThePick
<1>3. \A i : Performed(i)' <=> Performed(i)
  BY <1>1, <1>2 DEF Performed
<1>4. ASSUME NEW e PROVE WorkOf(e)' <=> WorkOf(e)
  BY <1>2, <1>3 DEF WorkOf
<1>5. RulesOfProcess'
  BY RulesStay DEF WorkInv
<1> DEFINE Startable == manifest.given \/ Picked \/ Found(manifest.upstream) = {}
           Disk == \A e \in disk' : e = Work0 \/ WorkOf(e)
           Rest == /\ task' # "none" \/ disk' # {} => Startable
                   /\ (task' = "none") <=> (stage' = "none")
                   /\ task' # "none" => rules' = TheRules
                   /\ stage' \in Acting => Performed(idx')
<1>6. Disk
  <2>1. disk' \subseteq disk \cup Product \cup Failed
    BY DiskGrows
  <2> QED
    BY <2>1, ProductIsWork DEF WorkInv
<1>7. Rest
  <2> USE DEF WorkInv
  <2>1. ASSUME NEW t \in Tasks, StartGiven(t) \/ StartDetected(t) PROVE Rest
    <3>1. rules' = TheRules /\ Startable
      BY <2>1, StartsWithTheRules
    <3>2. task' # "none" /\ stage' = "rule"
      BY <2>1 DEF StartGiven, StartDetected, Begin, Tasks
    <3> QED
      BY <3>1, <3>2 DEF Acting
  <2>2. ASSUME NEW t \in Tasks, StartAmbiguous(t) PROVE Rest
    BY <2>2, <1>3 DEF StartAmbiguous, Starts
  <2>3. CASE task # "none" /\ task' = task /\ rules' = rules /\ stage' # "none"
             /\ (stage' \in Acting => Performed(idx'))
    BY <2>3
  <2>4. CASE \E o : stage # "none" /\ Ends(o)
    BY <2>4 DEF Ends, Acting
  <2>5. CASE SkipRule \/ RulesDone
    BY <2>3, <2>4, <2>5 DEF SkipRule, RulesDone, MoreRules, Goes, Acting
  <2>6. CASE EnterEnv
    <3>1. idx \in DOMAIN rules /\ rules = TheRules /\ task # "none"
      BY <2>6 DEF EnterEnv, MoreRules, RulesOfProcess
    <3>2. Performed(idx)
      <4>1. Active(task) \subseteq ArchAll \cup ArchAny
        BY DEF Active
      <4> QED
        BY <2>6, <3>1, <4>1 DEF EnterEnv, Skipped, Performed, Rule
    <3> QED
      BY <2>3, <2>6, <3>1, <3>2 DEF EnterEnv, Goes
  <2>7. CASE LeaveEnv
    BY <2>3, <2>7 DEF LeaveEnv, Goes, Acting
  <2>8. CASE BuildStep
    BY <2>3, <2>8 DEF BuildStep, Goes, Follows, Acting
  <2>9. CASE CleanStep
    BY <2>3, <2>9 DEF CleanStep, Goes, Acting
  <2>10. CASE Remove
    BY <2>3, <2>4, <2>10 DEF Remove, Goes, Acting, NextRemoval, Removal
  <2>11. CASE InvalidRule \/ ConfigureCrashes \/ Assemble \/ StepFails \/ RemovalFails
    <3>1. \E o : Ends(o)
      BY <2>11 DEF InvalidRule, ConfigureCrashes, Assemble, StepFails, RemovalFails
    <3>2. stage # "none"
      BY <2>11 DEF InvalidRule, ConfigureCrashes, Assemble, StepFails, RemovalFails, Removal
    <3> QED
      BY <2>4, <3>1, <3>2
  <2>12. CASE UNCHANGED vars
    BY <2>12 DEF vars
  <2> QED
    BY <2>1, <2>2, <2>5, <2>6, <2>7, <2>8, <2>9, <2>10, <2>11, <2>12 DEF Next
<1> QED
  BY <1>1, <1>2, <1>3, <1>4, <1>5, <1>6, <1>7 DEF WorkInv, Work0

-----------------------------------------------------------------------------
(* A clean.                                                                 *)

\* With another directory, a clean runs in the wrong one; with an empty list of
\* rules it does not run at all.
Cleanable ==
    \A m \in Manifests :
        /\ m.given => m.rules # <<>>
        /\ \A i \in DOMAIN m.rules : m.rules[i].directory = "."

\* What may be left in the end.
LeftBehind(e) == e.system = "failed" /\ e.place = SourceDir(".")

\* The rules a clean is through with have left nothing but what it removes in
\* the end.
Cleaned(i) == i < idx \/ (i = idx /\ stage = "leave") \/ stage \in Removal
Packages == {PackageDir(p) : p \in Package}
Settled(e) ==
    \/ e.place \in scheduled \cup Packages \cup {Reconf, Debhelper}
    \/ LeftBehind(e)

CleanInv ==
    /\ task = "clean" => stage \notin {"configure", "build", "test", "install", "assemble"}
    /\ stage \in Removal => task = "clean"
    /\ task = "clean" => \A e \in disk : e # Work0 /\ Cleaned(e.by) => Settled(e)
    /\ stage \in {"dh", "buildtree", "scratch"} =>
            \A e \in disk : e = Work0 \/ LeftBehind(e) \/ e.place \in {Reconf, Debhelper}
    /\ stage \in {"buildtree", "scratch"} => \A e \in disk : e = Work0 \/ LeftBehind(e)
    /\ CleanUndoesBuilds

\* A clean is through with the rule at work.
LEMMA RuleIsCleaned ==
    ASSUME Cleanable, WorkInv, CleanStep, NEW e \in disk', e # Work0, e.by = idx
    PROVE  \/ e.place \in scheduled' \cup Packages \cup {Reconf, Debhelper}
           \/ LeftBehind(e)
<1>1. /\ stage = "clean" /\ disk' = disk \ Undone /\ e \in disk
      /\ scheduled' = scheduled
           \cup {p \in {BuildPlace(rules, idx)} :
                    OutOfSource(rules, idx) /\ \E f \in disk' : f.place = p}
           \cup {p \in {DestPlace(rules, idx)} : ~ Rule.direct}
  BY DEF CleanStep
<1>2. Performed(idx) /\ rules = TheRules /\ WorkOf(e) /\ idx \in DOMAIN TheRules
  BY <1>1 DEF WorkInv, Acting, Performed
<1>3. /\ Rule.directory = "."
      /\ Rule.direct => \E p \in Package : Rule.for # {} /\ Rule.for \subseteq Package
  <2>1. CASE manifest.given
    <3>1. Rule = manifest.rules[idx] /\ idx \in DOMAIN manifest.rules /\ manifest \in Manifests
      BY <1>2, <2>1, TheOneRule DEF Rule, WorkInv, RulesOfProcess
    <3>2. Rule.directory = "."
      BY <3>1 DEF Cleanable
    <3>3. idx \in 1 .. Len(manifest.rules)
      BY <3>1, NamesAssumption
    <3>4. Rule.for # {} /\ Rule.for \subseteq Package
      BY <3>1, <3>3, RuleAssumption
    <3> QED
      BY <3>2, <3>4
  <2>2. CASE ~ manifest.given
    <3>1. Rule = Automatic(ThePick)
      BY <1>2, <2>2, TheOneRule DEF Rule, WorkInv, RulesOfProcess
    <3>2. /\ Rule.directory = "." /\ Rule.for = Package
          /\ Rule.direct <=> Cardinality(Package) = 1
      BY <3>1 DEF Automatic
    <3>3. Cardinality(Package) = 1 => Package # {}
      BY FS_EmptySet
    <3> QED
      BY <3>2, <3>3
  <2> QED
    BY <2>1, <2>2
<1>4. CASE e.place = DestPlace(rules, idx)
  <2>1. CASE Rule.direct
    <3>1. DestPlace(rules, idx) = PackageDir(CHOOSE p \in Rule.for : TRUE)
      BY <2>1 DEF DestPlace, Rule
    <3>2. (CHOOSE p \in Rule.for : TRUE) \in Package
      BY <1>3, <2>1
    <3> QED
      BY <1>4, <3>1, <3>2 DEF Packages
  <2>2. CASE ~ Rule.direct
    BY <1>1, <1>4, <2>2
  <2> QED
    BY <2>1, <2>2
<1>5. CASE e.place \in {Reconf, Debhelper}
  BY <1>5
<1>6. CASE e.place = BuildPlace(rules, idx)
  <2>1. CASE OutOfSource(rules, idx)
    BY <1>1, <1>6, <2>1
  <2>2. CASE ~ OutOfSource(rules, idx)
    <3>1. e.place = SourceDir(".") /\ BuildPlace(rules, idx) = SourceDir(".")
      BY <1>3, <1>6, <2>2 DEF OutOfSource, Rule
    <3>2. UndoneBy(rules, idx) = {SourceDir(".")}
      BY <2>2, <3>1 DEF UndoneBy
    <3>3. e.system = "failed"
      <4> SUFFICES ASSUME e.system # "failed" PROVE e \in Undone
        BY <1>1
      <4> QED
        BY <1>1, <3>1, <3>2 DEF Undone
    <3> QED
      BY <3>1, <3>3 DEF LeftBehind
  <2> QED
    BY <2>1, <2>2
<1> QED
  BY <1>2, <1>4, <1>5, <1>6 DEF WorkOf

LEMMA CleanInvStep ==
    ASSUME Cleanable, WorkInv, WorkInv', CleanInv, [Next]_vars
    PROVE  CleanInv'
<1>1. /\ \A e \in disk : e = Work0 \/ WorkOf(e)
      /\ \A e \in disk : e # Work0 => e.by \in DOMAIN TheRules /\ e.by \in Nat \ {0} /\ Performed(e.by)
  BY TheOneRule DEF WorkInv, WorkOf, Performed, RulesOfProcess
<1>2. idx \in Nat
  BY DEF WorkInv, RulesOfProcess
\* A process that ends, but not a clean that is through.
<1>3. ASSUME NEW o \in {"ok", "command", "invalid", "crash"}, Ends(o),
             o # "ok" \/ task # "clean"
      PROVE  CleanInv'
  BY <1>3 DEF Ends, CleanInv, CleanUndoesBuilds, Removal
<1>4. ASSUME NEW t \in Tasks, StartGiven(t) \/ StartDetected(t) PROVE CleanInv'
  <2>1. task' = t /\ t # "none" /\ stage' = "rule" /\ idx' = 1 /\ disk' = disk
    BY <1>4 DEF StartGiven, StartDetected, Begin, Starts, Tasks
  <2>2. \A e \in disk' : e # Work0 => ~ Cleaned(e.by)'
    BY <1>1, <2>1 DEF Cleaned, Removal
  <2> QED
    BY <2>1, <2>2 DEF CleanInv, CleanUndoesBuilds, Removal, Work0
<1>5. ASSUME NEW t \in Tasks, StartAmbiguous(t) PROVE CleanInv'
  <2>1. ~ manifest.given /\ Options # {} /\ Cardinality(Remaining) # 1
        /\ disk' = disk /\ task' = task /\ task = "none" /\ stage' = "none"
    BY <1>5 DEF StartAmbiguous, Starts, WorkInv
  <2>2. ~ Picked
    <3> SUFFICES ASSUME Picked PROVE FALSE
      OBVIOUS
    <3>1. Remaining = {ThePick}
      BY <2>1, DetectionStays
    <3> QED
      BY <2>1, <3>1, FS_Singleton
  <2>3. Found(manifest.upstream) # {}
    BY <2>1, <2>2, DetectionStays
  <2>4. disk = {}
    BY <2>1, <2>2, <2>3 DEF WorkInv
  <2> QED
    BY <2>1, <2>4 DEF CleanInv, CleanUndoesBuilds, Removal
\* A step that keeps a task at work among its rules.
<1>6. ASSUME task # "none", task' = task, stage' \notin Removal,
             task = "clean" => stage' \notin {"configure", "build", "test", "install", "assemble"},
             task = "clean" => \A e \in disk' : e # Work0 /\ Cleaned(e.by)' => Settled(e)'
      PROVE  CleanInv'
  BY <1>6 DEF CleanInv, CleanUndoesBuilds, Removal, Work0
<1>7. CASE SkipRule
  <2>1. /\ task # "none" /\ task' = task /\ stage = "rule" /\ stage' = "rule"
        /\ idx' = idx + 1 /\ disk' = disk /\ scheduled' = scheduled
        /\ rules = TheRules /\ Skipped
    BY <1>7 DEF SkipRule, MoreRules, Goes, WorkInv
  <2>2. task = "clean" => ~ Performed(idx)
    BY <2>1 DEF Skipped, Performed, Active, Rule
  <2>3. \A e \in disk' : task = "clean" /\ e # Work0 /\ Cleaned(e.by)' => Cleaned(e.by)
    BY <1>1, <1>2, <2>1, <2>2 DEF Cleaned, Removal
  <2>4. \A e : Settled(e) => Settled(e)'
    BY <2>1 DEF Settled, LeftBehind
  <2> QED
    BY <1>6, <2>1, <2>3, <2>4 DEF CleanInv, Removal
<1>8. CASE EnterEnv
  <2>1. /\ task # "none" /\ task' = task /\ stage = "rule"
        /\ stage' \in {"rule", "clean", "configure"} /\ (task = "clean" => stage' # "configure")
        /\ idx' = idx /\ disk' = disk /\ scheduled' = scheduled
    BY <1>8 DEF EnterEnv, MoreRules, Goes, WorkInv
  <2>2. \A i : Cleaned(i)' => Cleaned(i)
    BY <2>1 DEF Cleaned, Removal
  <2>3. \A e : Settled(e) => Settled(e)'
    BY <2>1 DEF Settled, LeftBehind
  <2> QED
    BY <1>6, <2>1, <2>2, <2>3 DEF CleanInv, Removal
<1>9. CASE LeaveEnv
  <2>1. /\ task # "none" /\ task' = task /\ stage = "leave"
        /\ stage' \in {"rule", "leave"}
        /\ idx' = IF stage' = "rule" THEN idx + 1 ELSE idx
        /\ disk' = disk /\ scheduled' = scheduled
    BY <1>9 DEF LeaveEnv, Goes, WorkInv
  <2>2. \A i \in Nat : Cleaned(i)' => Cleaned(i)
    BY <1>2, <2>1 DEF Cleaned, Removal
  <2>3. \A e : Settled(e) => Settled(e)'
    BY <2>1 DEF Settled, LeftBehind
  <2>4. \A e \in disk' : task = "clean" /\ e # Work0 /\ Cleaned(e.by)' => Settled(e)'
    BY <1>1, <2>1, <2>2, <2>3 DEF CleanInv
  <2> QED
    BY <1>6, <2>1, <2>4 DEF Removal
<1>10. CASE BuildStep
  <2>1. /\ task # "none" /\ task' = task /\ task # "clean"
        /\ stage' \in {"build", "test", "install", "leave"}
    BY <1>10 DEF BuildStep, Goes, Follows, WorkInv, CleanInv
  <2> QED
    BY <1>6, <2>1 DEF Removal
<1>11. CASE CleanStep
  <2>1. /\ task # "none" /\ task' = task /\ stage = "clean" /\ stage' = "leave" /\ idx' = idx
        /\ disk' \subseteq disk /\ scheduled \subseteq scheduled'
    BY <1>11 DEF CleanStep, Goes, WorkInv
  <2>2. ASSUME NEW e \in disk', task = "clean", e # Work0, Cleaned(e.by)' PROVE Settled(e)'
    <3>1. CASE e.by = idx
      BY <1>11, <2>2, <3>1, RuleIsCleaned DEF Settled, LeftBehind, Packages
    <3>2. CASE e.by # idx
      <4>1. Cleaned(e.by)
        BY <2>1, <2>2, <3>2 DEF Cleaned, Removal
      <4>2. Settled(e)
        BY <2>1, <2>2, <4>1 DEF CleanInv
      <4> QED
        BY <2>1, <4>2 DEF Settled, LeftBehind
    <3> QED
      BY <3>1, <3>2
  <2> QED
    BY <1>6, <2>1, <2>2 DEF Removal
<1>12. CASE RulesDone
  <2>1. /\ task # "none" /\ stage = "rule" /\ idx > Len(rules) /\ disk' = disk /\ rules = TheRules
    BY <1>12 DEF RulesDone, WorkInv
  <2>2. task = "clean" => ~ (manifest.given /\ rules = <<>>)
    BY <2>1 DEF WorkInv, RulesOfProcess, Cleanable, TheRules
  <2>3. CASE task \notin Binary /\ Ends("ok") /\ task # "clean"
    BY <1>3, <2>3
  <2>4. CASE task \in Binary /\ Goes("assemble")
    BY <1>6, <2>1, <2>4 DEF Goes, Binary, Removal
  <2>5. CASE task = "clean" /\ Goes("remove") /\ UNCHANGED <<idx, environ, backups, scheduled>>
    <3>1. \A e \in disk : e # Work0 => Cleaned(e.by)
      <4>1. \A i \in DOMAIN TheRules : i <= Len(TheRules)
        BY NamesAssumption DEF TheRules, WorkInv, RulesOfProcess
      <4>2. Len(TheRules) \in Nat
        BY NamesAssumption DEF TheRules, WorkInv, RulesOfProcess
      <4> QED
        BY <1>1, <1>2, <2>1, <4>1, <4>2 DEF Cleaned
    <3>2. \A e \in disk : e # Work0 => Settled(e)
      BY <2>5, <3>1 DEF CleanInv
    <3>3. \A e : Settled(e) => Settled(e)'
      BY <2>5 DEF Settled, LeftBehind
    <3>4. task' = "clean" /\ stage' = "remove"
      BY <2>5 DEF Goes
    <3> QED
      BY <2>1, <3>2, <3>3, <3>4 DEF CleanInv, CleanUndoesBuilds, Work0
  <2> QED
    BY <1>12, <2>1, <2>2, <2>3, <2>4, <2>5 DEF RulesDone
<1>13. CASE Remove
  <2>1. /\ task = "clean" /\ stage \in Removal /\ disk' = disk \ Doomed
        /\ \A e \in disk' : e \in disk /\ e.place \notin Removes
    BY <1>13 DEF Remove, Doomed, CleanInv
  <2>2. CASE stage = "remove"
    <3>1. stage' = "dh" /\ task' = "clean"
      BY <1>13, <2>1, <2>2 DEF Remove, Goes, NextRemoval
    <3>2. \A e \in disk : e # Work0 => Settled(e)
      BY <2>1 DEF CleanInv, Cleaned
    <3>3. Removes = scheduled \cup Packages
      BY <2>2 DEF Removes, Packages
    <3>4. \A e \in disk' : e = Work0 \/ LeftBehind(e) \/ e.place \in {Reconf, Debhelper}
      BY <2>1, <3>2, <3>3 DEF Settled
    <3> QED
      BY <3>1, <3>4 DEF CleanInv, CleanUndoesBuilds, Settled, Work0, LeftBehind
  <2>3. CASE stage \in {"dh", "buildtree"}
    <3>1. stage' = NextRemoval /\ stage' \in {"buildtree", "scratch"} /\ task' = "clean"
      BY <1>13, <2>1, <2>3 DEF Remove, Goes, NextRemoval
    <3>2. \A e \in disk' : e = Work0 \/ LeftBehind(e)
      <4>1. CASE stage = "dh"
        <5>1. Removes = {Reconf, Debhelper}
          BY <4>1 DEF Removes
        <5> QED
          BY <2>1, <4>1, <5>1 DEF CleanInv
      <4>2. CASE stage = "buildtree"
        BY <2>1, <4>2 DEF CleanInv
      <4> QED
        BY <2>3, <4>1, <4>2
    <3> QED
      BY <3>1, <3>2 DEF CleanInv, CleanUndoesBuilds, Settled, Work0, LeftBehind, Removal
  <2>4. CASE stage = "scratch"
    <3>1. Ends("ok")
      BY <1>13, <2>4 DEF Remove
    <3>2. Removes = {Scratch} /\ Work0.place = Scratch
      BY <2>4 DEF Removes, Work0, Left
    <3>3. \A e \in disk' : LeftBehind(e)
      BY <2>1, <2>4, <3>2 DEF CleanInv
    <3> QED
      BY <3>1, <3>3 DEF Ends, CleanInv, CleanUndoesBuilds, Removal, LeftBehind
  <2> QED
    BY <2>1, <2>2, <2>3, <2>4 DEF Removal
<1>14. CASE Assemble
  <2>1. task # "clean" /\ Ends("ok")
    BY <1>14 DEF Assemble, CleanInv
  <2> QED
    BY <1>3, <2>1
<1>15. CASE InvalidRule \/ ConfigureCrashes \/ StepFails \/ RemovalFails
  <2>1. Ends("invalid") \/ Ends("crash") \/ Ends("command")
    BY <1>15 DEF InvalidRule, ConfigureCrashes, StepFails, RemovalFails
  <2> QED
    BY <1>3, <2>1
<1>16. CASE UNCHANGED vars
  BY <1>16 DEF vars, CleanInv, CleanUndoesBuilds, Cleaned, Settled, LeftBehind, Work0
<1> QED
  BY <1>4, <1>5, <1>7, <1>8, <1>9, <1>10, <1>11, <1>12, <1>13, <1>14, <1>15, <1>16 DEF Next

\* A clean that ends without an error leaves nothing of what any tasks before
\* it have built, wherever these failed, but for the log of a configure script
\* that failed in the source root; if the manifest has no empty list of rules
\* and no Makefile in another directory, with which the code's clean does not do.
THEOREM CleansUndoBuilds ==
    ASSUME Cleanable
    PROVE  Spec => []CleanUndoesBuilds
<1>1. Init => WorkInv /\ CleanInv
  <2> SUFFICES ASSUME Init PROVE WorkInv /\ CleanInv
    OBVIOUS
  <2>1. WorkInv
    BY DEF Init, WorkInv, RulesOfProcess, Acting
  <2>2. CleanInv
    BY DEF Init, CleanInv, CleanUndoesBuilds, Removal
  <2> QED
    BY <2>1, <2>2
<1>2. WorkInv /\ CleanInv /\ [Next]_vars => (WorkInv /\ CleanInv)'
  <2> SUFFICES ASSUME WorkInv, CleanInv, [Next]_vars PROVE (WorkInv /\ CleanInv)'
    OBVIOUS
  <2>1. WorkInv'
    BY WorkStep
  <2>2. CleanInv'
    BY <2>1, CleanInvStep
  <2> QED
    BY <2>1, <2>2
<1>3. CleanInv => CleanUndoesBuilds
  BY DEF CleanInv
<1> QED
  BY <1>1, <1>2, <1>3, PTL DEF Spec
=============================================================================
