-------------------------- MODULE ServiceRulesProofs --------------------------
(***************************************************************************)
(* Theorems about ServiceRules for any services, managers and rules, and    *)
(* any order in which the set of pending services gives up its elements:    *)
(* a rule reaches the least set of services that is closed under shared     *)
(* names, and a package fails exactly if one of its rules is at fault.      *)
(***************************************************************************)
EXTENDS ServiceRules, TLAPS

\* What a rule has come to when it is over.
Finished(i) ==
    /\ Known(rules[i].service, rules[i]) # {}
    /\ Reach(Bearing(i), rules[i])
    /\ rules[i].explicit => {ManagerOf(k) : k \in Bearing(i)} = rules[i].managers

\* What has been reached and what is pending, for the rule in work: all that is
\* known so far, and nothing but what any closed set has.
SpreadInv ==
    LET r == rules[at]
    IN  /\ at \in 1..Len(rules)
        /\ seen = Bearing(at)
        /\ seen \cap queue = {}
        /\ Known(r.service, r) # {}
        /\ Known(r.service, r) \subseteq seen \cup queue
        /\ \A k \in seen : \A n \in table[k].names : Known(n, r) \subseteq seen \cup queue
        /\ \A T \in SUBSET DOMAIN table : Holds(T, r) => seen \cup queue \subseteq T

UnknownManager == \E i \in DOMAIN rules : ~ (rules[i].managers \subseteq Manager)

RulesInv ==
    /\ TypeOK
    /\ status \in {"new", "detecting"} => at = 0
    /\ status = "spreading" => SpreadInv
    /\ status = "failed" => IF at = 0 THEN UnknownManager ELSE AtFault(at)
    /\ \A i \in 1..at \ InWork : Finished(i)

-----------------------------------------------------------------------------
(* The least closed set.                                                    *)

\* There is one set a rule is for: what all closed sets have in common.
LEMMA ReachIsUnique ==
    ASSUME TypeOK, NEW r \in Rule
    PROVE  /\ \E S \in SUBSET DOMAIN table : Reach(S, r)
           /\ \A S, T \in SUBSET DOMAIN table : Reach(S, r) /\ Reach(T, r) => S = T
  <1> DEFINE Least == {k \in DOMAIN table : \A T \in SUBSET DOMAIN table : Holds(T, r) => k \in T}
  <1>1. \A n \in ServiceName : Known(n, r) \subseteq DOMAIN table
    BY DEF TypeOK, Known
  <1>2. r.service \in ServiceName /\ \A k \in DOMAIN table : table[k].names \subseteq ServiceName
    BY RulesAssumption DEF TypeOK, Definitions
  <1>3. Known(r.service, r) \subseteq Least
    BY <1>1, <1>2 DEF Holds
  <1>4. ASSUME NEW k \in Least, NEW n \in table[k].names
        PROVE  Known(n, r) \subseteq Least
    BY <1>1, <1>2, <1>4 DEF Holds
  <1>5. Holds(Least, r)
    BY <1>3, <1>4 DEF Holds
  <1>6. Reach(Least, r)
    BY <1>5 DEF Reach
  <1>7. \A S, T \in SUBSET DOMAIN table : Reach(S, r) /\ Reach(T, r) => S = T
    BY DEF Reach
  <1> HIDE DEF Least
  <1>8. Least \in SUBSET DOMAIN table
    BY DEF Least
  <1> QED
    BY <1>6, <1>7, <1>8

\* A rule that is over was not at fault.
LEMMA FinishedNotAtFault ==
    ASSUME TypeOK, NEW i \in 1..at, Finished(i)
    PROVE  ~ AtFault(i)
  <1>1. rules[i] \in Rule
    BY DEF TypeOK
  <1>2. Bearing(i) \in SUBSET DOMAIN table /\ \A k \in Bearing(i) : table[k].rule = i
    BY DEF Bearing
  <1>3. \A mine \in SUBSET DOMAIN table : Reach(mine, rules[i]) => mine = Bearing(i)
    BY <1>1, <1>2, ReachIsUnique DEF Finished
  <1>4. Bearing(i) # {}
    BY DEF Finished, Reach, Holds
  <1> QED
    BY <1>2, <1>3, <1>4 DEF AtFault, Finished

-----------------------------------------------------------------------------
(* Type correctness.                                                        *)

LEMMA InitTypes == Init => TypeOK
  <1> SUFFICES ASSUME Init PROVE TypeOK
    OBVIOUS
  <1>1. rules \in Seq(Rule)
    BY RulesAssumption DEF Init
  <1>2. DOMAIN table = {}
    BY DEF Init
  <1>3. table \in [DOMAIN table -> Definitions]
    BY <1>2 DEF Init
  <1> QED
    BY <1>1, <1>2, <1>3 DEF Init, TypeOK

\* What a rule makes of a definition.
LEMMA ConfiguredTypes ==
    ASSUME TypeOK, NEW d \in Definitions, NEW i \in 0..at, NEW r \in Rule
    PROVE  /\ Configured(d, r, i) \in Definitions
           /\ Configured(d, r, i).names = d.names
           /\ Configured(d, r, i).rule = i
  <1>1. r.service \in ServiceName /\ {r.enable, r.start, r.upgrade} \subseteq Choice
    BY RulesAssumption DEF Choice
  <1> QED
    BY <1>1 DEF Configured, Definitions

LEMMA RegisteredTypes ==
    ASSUME at \in Nat, NEW s \in Service
    PROVE  /\ Key(s) \in Keys
           /\ Definition(s) \in Definitions
           /\ Definition(s).rule = 0
           /\ s.names \subseteq ServiceName
  <1>1. s.name \in s.names /\ s.names \subseteq ServiceName
    BY RulesAssumption DEF ServiceName
  <1>2. {s.enable, s.start, s.upgrade} \subseteq Choice
    BY DEF Choice
  <1> QED
    BY <1>1, <1>2 DEF Key, Keys, Definition, Definitions

LEMMA NextTypes ==
    ASSUME TypeOK, status = "spreading" => at \in 1..Len(rules), [Next]_vars
    PROVE  TypeOK'
  <1>1. rules \in Seq(Rule) /\ at \in Nat
    BY DEF TypeOK
  <1>2. CASE CheckManagers
    BY <1>2 DEF CheckManagers, TypeOK, Definitions
  <1>3. ASSUME NEW s \in Service, Register(s) PROVE TypeOK'
    <2> USE <1>3 DEF Register
    <2>1. Key(s) \in Keys /\ Definition(s) \in Definitions /\ s.names \subseteq ServiceName
      BY <1>1, RegisteredTypes
    <2>2. DOMAIN table' = DOMAIN table \cup {Key(s)}
      OBVIOUS
    <2>3. table' \in [DOMAIN table' -> Definitions']
      BY <2>1, <2>2 DEF TypeOK, Definitions
    <2>4. aliases' \in [ServiceName -> SUBSET DOMAIN table']
      BY <2>1, <2>2 DEF TypeOK
    <2> QED
      BY <2>1, <2>2, <2>3, <2>4 DEF TypeOK
  <1>4. CASE AllDetected
    BY <1>4 DEF AllDetected, TypeOK, Definitions
  <1>5. CASE BeginRule
    <2> USE <1>5 DEF BeginRule
    <2>1. at' \in 1..Len(rules) /\ rules[at + 1] \in Rule
      BY <1>1
    <2>2. Named(rules[at + 1]) \subseteq DOMAIN table
      BY <2>1, RulesAssumption DEF Named, TypeOK
    <2>3. table' \in [DOMAIN table' -> Definitions']
      <3>1. Definitions \subseteq Definitions'
        BY <1>1, <2>1 DEF Definitions
      <3> QED
        BY <3>1 DEF TypeOK
    <2> QED
      BY <2>1, <2>2, <2>3 DEF TypeOK
  <1>6. ASSUME NEW k \in queue, ApplyRule(k) PROVE TypeOK'
    <2> USE <1>6 DEF ApplyRule
    <2>1. CASE table[k].rule # 0
      BY <2>1 DEF TypeOK, Definitions
    <2>2. CASE table[k].rule = 0
      <3>1. /\ k \in DOMAIN table /\ table[k] \in Definitions
            /\ at \in 0..at /\ rules[at] \in Rule
        BY <1>1 DEF TypeOK
      <3>2. table' \in [DOMAIN table' -> Definitions']
        BY <2>2, <3>1, ConfiguredTypes DEF TypeOK, Definitions
      <3>3. Linked(k, rules[at]) \subseteq DOMAIN table
        BY <3>1, RulesAssumption DEF Linked, TypeOK, Definitions
      <3> QED
        BY <2>2, <3>1, <3>2, <3>3 DEF TypeOK
    <2> QED
      BY <2>1, <2>2
  <1>7. CASE EndRule
    BY <1>7 DEF EndRule, TypeOK, Definitions
  <1>8. CASE Integrate
    BY <1>8 DEF Integrate, TypeOK, Definitions
  <1>9. CASE UNCHANGED vars
    BY <1>9 DEF vars, TypeOK, Definitions
  <1> QED
    BY <1>2, <1>3, <1>4, <1>5, <1>6, <1>7, <1>8, <1>9 DEF Next

-----------------------------------------------------------------------------
(* The inductive invariant.                                                 *)

\* Sets stay closed as long as nobody gets another name.
LEMMA SameNames ==
    ASSUME aliases' = aliases, DOMAIN table' = DOMAIN table,
           \A k \in DOMAIN table : table'[k].names = table[k].names, NEW r
    PROVE  /\ \A n : Known(n, r)' = Known(n, r)
           /\ \A S \in SUBSET DOMAIN table : Holds(S, r)' <=> Holds(S, r)
           /\ \A S \in SUBSET DOMAIN table : Reach(S, r)' <=> Reach(S, r)
  <1>1. \A n : Known(n, r)' = Known(n, r)
    BY DEF Known
  <1>2. \A S \in SUBSET DOMAIN table : Holds(S, r)' <=> Holds(S, r)
    BY <1>1 DEF Holds
  <1>3. \A S \in SUBSET DOMAIN table : Reach(S, r)' <=> Reach(S, r)
    BY <1>2 DEF Reach
  <1> QED
    BY <1>1, <1>2, <1>3

\* A step that leaves the rules and the tables alone does not undo a rule.
LEMMA FinishedStays ==
    ASSUME rules' = rules, aliases' = aliases, table' = table, NEW i
    PROVE  Finished(i) => Finished(i)'
  <1>1. Bearing(i)' = Bearing(i) /\ Bearing(i) \in SUBSET DOMAIN table
    BY DEF Bearing
  <1>2. Reach(Bearing(i), rules[i])' <=> Reach(Bearing(i), rules[i])
    BY <1>1, SameNames
  <1>3. Known(rules[i].service, rules[i])' = Known(rules[i].service, rules[i])
    BY DEF Known
  <1> QED
    BY <1>1, <1>2, <1>3 DEF Finished

LEMMA InitRulesInv == Init => RulesInv
  <1> SUFFICES ASSUME Init PROVE RulesInv
    OBVIOUS
  <1>1. TypeOK
    BY InitTypes
  <1> QED
    BY <1>1 DEF Init, RulesInv

LEMMA CheckManagersInv == ASSUME RulesInv, CheckManagers PROVE RulesInv'
  <1> USE DEF CheckManagers
  <1>1. TypeOK'
    BY NextTypes DEF RulesInv, Next
  <1>2. at' = 0 /\ status' \in {"detecting", "failed"}
    BY DEF RulesInv
  <1>3. status' = "failed" => UnknownManager'
    BY DEF UnknownManager
  <1> QED
    BY <1>1, <1>2, <1>3 DEF RulesInv

LEMMA DetectionInv ==
    ASSUME RulesInv, AllDetected \/ \E s \in Service : Register(s)
    PROVE  RulesInv'
  <1>1. TypeOK'
    BY NextTypes DEF RulesInv, Next, Register, AllDetected
  <1>2. at' = 0 /\ status' \in {"detecting", "between"}
    BY DEF RulesInv, Register, AllDetected
  <1> QED
    BY <1>1, <1>2 DEF RulesInv

LEMMA BeginRuleInv == ASSUME RulesInv, BeginRule PROVE RulesInv'
  <1> USE DEF BeginRule
  <1>1. TypeOK'
    BY NextTypes DEF RulesInv, Next
  <1>2. at \in Nat /\ at' = at + 1 /\ at' \in 1..Len(rules) /\ rules[at + 1] \in Rule
    BY DEF RulesInv, TypeOK
  <1> PICK r \in Rule : r = rules[at + 1] /\ r = rules[at]'
    BY <1>2
  <1>3. \A i \in 1..at : Finished(i)'
    BY FinishedStays DEF RulesInv, InWork
  <1>4. \A i \in 1..at' \ InWork' : Finished(i)'
    BY <1>2, <1>3 DEF InWork
  <1>5. Named(r) = Known(r.service, r)
    BY DEF Named, Known
  <1>6. Bearing(at + 1) = {}
    BY <1>2 DEF RulesInv, TypeOK, Definitions, Bearing
  <1>7. CASE queue' = {}
    <2>1. PICK S \in SUBSET DOMAIN table : Reach(S, r)
      BY <1>2, ReachIsUnique DEF RulesInv
    <2>2. {} \in SUBSET DOMAIN table /\ Holds({}, r)
      BY <1>5, <1>7 DEF Holds
    <2>3. S = {}
      BY <2>1, <2>2 DEF Reach
    <2>4. Reach({}, r)'
      BY <2>1, <2>3, SameNames
    <2>5. AtFault(at)'
      BY <1>2, <2>4 DEF AtFault
    <2> QED
      BY <1>1, <1>2, <1>4, <1>7, <2>5 DEF RulesInv
  <1>8. CASE queue' # {}
    <2>1. \A n : Known(n, r)' = Known(n, r)
      BY SameNames
    <2>2. SpreadInv'
      BY <1>2, <1>5, <1>6, <1>8, <2>1 DEF SpreadInv, Holds, Bearing
    <2> QED
      BY <1>1, <1>2, <1>4, <1>8, <2>2 DEF RulesInv
  <1> QED
    BY <1>7, <1>8

\* The two choices of a service with a rule already, and of one without.
LEMMA ApplyRuleInv == ASSUME RulesInv, NEW k \in queue, ApplyRule(k) PROVE RulesInv'
  <1> USE DEF ApplyRule
  <1>1. TypeOK'
    BY NextTypes DEF RulesInv, SpreadInv, Next
  <1>2. /\ TypeOK /\ SpreadInv
        /\ at \in Nat \ {0} /\ at' = at /\ at \in 1..Len(rules) /\ rules[at] \in Rule
        /\ k \in DOMAIN table /\ table[k] \in Definitions
    BY DEF RulesInv, SpreadInv, TypeOK
  <1>3. \A i \in 1..at : i # at => Finished(i)
    BY DEF RulesInv, InWork
  <1> PICK r \in Rule : r = rules[at] /\ r = rules[at]'
    BY <1>2
  <1>4. CASE table[k].rule # 0
    <2>1. table' = table /\ aliases' = aliases /\ rules' = rules /\ status' = "failed"
      BY <1>4
    <2>2. \A i \in 1..at' \ InWork' : Finished(i)'
      BY <1>2, <1>3, <2>1, FinishedStays DEF InWork
    <2>3. PICK S \in SUBSET DOMAIN table : Reach(S, r)
      BY <1>2, ReachIsUnique
    <2>4. k \in S /\ k \notin Bearing(at)
      BY <1>2, <2>3 DEF SpreadInv, Reach
    <2>5. table[k].rule \notin {0, at}
      BY <1>2, <1>4, <2>4 DEF Bearing
    <2>6. Reach(S, r)'
      BY <2>1, <2>3, SameNames
    <2>7. AtFault(at)'
      BY <1>2, <2>1, <2>4, <2>5, <2>6 DEF AtFault
    <2> QED
      BY <1>1, <1>2, <2>1, <2>2, <2>7 DEF RulesInv
  <1>5. CASE table[k].rule = 0
    <2>1. /\ table' = [table EXCEPT ![k] = Configured(table[k], r, at)]
          /\ seen' = seen \cup {k}
          /\ queue' = (queue \cup Linked(k, r)) \ seen'
          /\ aliases' = aliases /\ rules' = rules /\ status' = "spreading"
      BY <1>5
    <2>2. /\ DOMAIN table' = DOMAIN table
          /\ \A j \in DOMAIN table : table'[j].names = table[j].names
          /\ table'[k].rule = at
          /\ \A j \in DOMAIN table \ {k} : table'[j] = table[j]
      BY <1>2, <2>1, ConfiguredTypes
    <2>3. Bearing(at)' = Bearing(at) \cup {k}
      BY <1>2, <1>5, <2>2 DEF Bearing
    <2>4. \A i \in 1..at : i # at => Bearing(i)' = Bearing(i)
      BY <1>2, <1>5, <2>2 DEF Bearing
    <2>5. ASSUME NEW i \in 1..at, i # at PROVE Finished(i)'
      <3>1. Bearing(i) \in SUBSET DOMAIN table /\ Finished(i)
        BY <1>3, <2>5 DEF Bearing
      <3> PICK q : q = rules[i] /\ q = rules'[i]
        BY <2>1
      <3>2. Reach(Bearing(i), q)
        BY <3>1 DEF Finished
      <3> PICK B : B = Bearing(i) /\ B = Bearing(i)'
        BY <2>4, <2>5
      <3>3. Reach(B, q)' /\ Known(q.service, q)' = Known(q.service, q)
        BY <2>1, <2>2, <3>1, <3>2, SameNames
      <3> QED
        BY <3>1, <3>3 DEF Finished
    <2>6. Linked(k, r) = UNION {Known(n, r) : n \in table[k].names}
      BY DEF Linked, Known
    <2>7. \A n : Known(n, r)' = Known(n, r)
      BY <2>1, <2>2, SameNames
    <2>8. seen' \cup queue' = seen \cup queue \cup Linked(k, r)
      BY <2>1
    <2>9. \A T \in SUBSET DOMAIN table : Holds(T, r)' => Holds(T, r)
      BY <2>1, <2>2, SameNames
    <2>10. \A T \in SUBSET DOMAIN table' : Holds(T, r)' => seen' \cup queue' \subseteq T
      <3> SUFFICES ASSUME NEW T \in SUBSET DOMAIN table, Holds(T, r)
                   PROVE  seen' \cup queue' \subseteq T
        BY <2>2, <2>9
      <3>1. seen \cup queue \subseteq T
        BY <1>2 DEF SpreadInv
      <3>2. Linked(k, r) \subseteq T
        BY <2>6, <3>1 DEF Holds
      <3> QED
        BY <2>8, <3>1, <3>2
    <2>11. \A j \in seen' : \A n \in table'[j].names : Known(n, r)' \subseteq seen' \cup queue'
      <3> SUFFICES ASSUME NEW j \in seen', NEW n \in table'[j].names
                   PROVE  Known(n, r) \subseteq seen \cup queue \cup Linked(k, r)
        BY <2>7, <2>8
      <3>1. n \in table[j].names
        BY <1>2, <2>1, <2>2 DEF TypeOK
      <3>2. CASE j = k
        BY <2>6, <3>1, <3>2
      <3>3. CASE j \in seen
        BY <1>2, <3>1, <3>3 DEF SpreadInv
      <3> QED
        BY <2>1, <3>2, <3>3
    <2>12. SpreadInv'
      <3>1. Known(r.service, r) # {} /\ Known(r.service, r) \subseteq seen \cup queue
        BY <1>2 DEF SpreadInv
      <3>2. seen' = Bearing(at)' /\ seen' \cap queue' = {}
        BY <1>2, <2>1, <2>3 DEF SpreadInv
      <3> QED
        BY <1>2, <2>1, <2>7, <2>8, <2>10, <2>11, <3>1, <3>2 DEF SpreadInv
    <2> QED
      BY <1>1, <1>2, <2>1, <2>5, <2>12 DEF RulesInv, InWork
  <1> QED
    BY <1>4, <1>5

\* With nothing pending, what was reached is closed.
LEMMA EndRuleInv == ASSUME RulesInv, EndRule PROVE RulesInv'
  <1> USE DEF EndRule
  <1>1. TypeOK'
    BY NextTypes DEF RulesInv, SpreadInv, Next
  <1>2. /\ SpreadInv /\ queue = {}
        /\ at \in Nat \ {0} /\ at' = at /\ at \in 1..Len(rules)
        /\ table' = table /\ aliases' = aliases /\ rules' = rules
    BY DEF RulesInv, SpreadInv, TypeOK
  <1>3. \A i \in 1..at : i # at => Finished(i)'
    BY <1>2, FinishedStays DEF RulesInv, InWork
  <1> PICK r : r = rules[at] /\ r = rules[at]'
    BY <1>2
  <1>4. Reach(seen, r) /\ seen = Bearing(at) /\ seen \in SUBSET DOMAIN table
    BY <1>2 DEF SpreadInv, Reach, Holds, Bearing
  <1>5. CASE Served(r)
    <2>1. Finished(at)
      BY <1>2, <1>4, <1>5 DEF Finished, Served, SpreadInv
    <2>2. Finished(at)'
      BY <1>2, <2>1, FinishedStays
    <2> QED
      BY <1>1, <1>2, <1>3, <1>5, <2>2 DEF RulesInv
  <1>6. CASE ~ Served(r)
    <2> PICK S : S = seen /\ S = seen'
      OBVIOUS
    <2>1. Reach(S, r)'
      BY <1>2, <1>4, SameNames
    <2>2. AtFault(at)'
      BY <1>2, <1>4, <1>6, <2>1 DEF AtFault, Served
    <2> QED
      BY <1>1, <1>2, <1>3, <1>6, <2>2 DEF RulesInv, InWork
  <1> QED
    BY <1>5, <1>6

LEMMA IntegrateInv == ASSUME RulesInv, Integrate PROVE RulesInv'
  <1> USE DEF Integrate
  <1>1. TypeOK'
    BY NextTypes DEF RulesInv, SpreadInv, Next
  <1>2. \A i \in 1..at' : Finished(i)'
    BY FinishedStays DEF RulesInv, InWork
  <1> QED
    BY <1>1, <1>2 DEF RulesInv

LEMMA StutterInv == ASSUME RulesInv, UNCHANGED vars PROVE RulesInv'
  <1> USE DEF vars
  <1>1. TypeOK'
    BY NextTypes DEF RulesInv, SpreadInv
  <1>2. \A i \in 1..at' \ InWork' : Finished(i)'
    BY FinishedStays DEF RulesInv, InWork
  <1>3. \A n, r : Known(n, r)' = Known(n, r)
    BY DEF Known
  <1>4. \A S, r : Holds(S, r)' <=> Holds(S, r)
    BY <1>3 DEF Holds
  <1>5. SpreadInv => SpreadInv'
    <2> SUFFICES ASSUME SpreadInv PROVE SpreadInv'
      OBVIOUS
    <2> PICK r : r = rules[at] /\ r = rules'[at']
      OBVIOUS
    <2>1. Bearing(at)' = Bearing(at)
      BY DEF Bearing
    <2> QED
      BY <1>3, <1>4, <2>1 DEF SpreadInv
  <1>6. \A S, r : Reach(S, r)' <=> Reach(S, r)
    BY <1>4 DEF Reach
  <1>7. AtFault(at) => AtFault(at)'
    BY <1>6 DEF AtFault
  <1>8. UnknownManager => UnknownManager'
    BY DEF UnknownManager
  <1> QED
    BY <1>1, <1>2, <1>5, <1>7, <1>8 DEF RulesInv

LEMMA NextRulesInv == ASSUME RulesInv, [Next]_vars PROVE RulesInv'
  BY CheckManagersInv, DetectionInv, BeginRuleInv, ApplyRuleInv, EndRuleInv, IntegrateInv,
     StutterInv DEF Next

-----------------------------------------------------------------------------
(* Theorems.                                                                *)

\* The invariant holds in every reachable state: of a rule in work, all that its
\* name leads to is reached or pending, and nothing else is.
THEOREM RulesAlwaysHold == Spec => []RulesInv
  <1>1. RulesInv /\ [Next]_vars => RulesInv'
    BY NextRulesInv
  <1> QED
    BY <1>1, InitRulesInv, PTL DEF Spec

\* Type correctness.
THEOREM ServiceTypesAreCorrect == Spec => []TypeOK
  <1>1. RulesInv => TypeOK
    BY DEF RulesInv
  <1> QED
    BY <1>1, RulesAlwaysHold, PTL

\* A rule ends with exactly the services its name leads to, for any number of
\* services, names and managers and in whatever order the pending set gives them
\* up (_relevant_service_definitions).
THEOREM RulesReachTheirServices == Spec => []RuleReachesItsServices
  <1>1. RulesInv => RuleReachesItsServices
    BY DEF RulesInv, RuleReachesItsServices, Finished
  <1> QED
    BY <1>1, RulesAlwaysHold, PTL

\* The errors of handle_service_management are raised for rules that are at fault,
\* and for all of these.
THEOREM ErrorsHaveReasons == Spec => []FailsForAReason
  <1>1. RulesInv => FailsForAReason
    <2> SUFFICES ASSUME RulesInv PROVE FailsForAReason
      OBVIOUS
    <2>1. \A i \in 1..at \ InWork : ~ AtFault(i)
      BY FinishedNotAtFault DEF RulesInv
    <2> QED
      BY <2>1 DEF RulesInv, FailsForAReason, UnknownManager
  <1> QED
    BY <1>1, RulesAlwaysHold, PTL
=============================================================================
