----------------------------- MODULE ServiceRules -----------------------------
(***************************************************************************)
(* The services of one package: the plugins detect those of each service    *)
(* manager, then the rules of the manifest are applied, one after the other *)
(* (handle_service_management).  A rule spreads from the services that have *)
(* its name to those that share a name with them, of whatever manager it    *)
(* applies to; the set it works off gives up its elements in any order.     *)
(*                                                                         *)
(* A service is known by the key it was detected with.  The order in which  *)
(* the integrators get the services is left out.                            *)
(***************************************************************************)
EXTENDS Integers, Sequences, FiniteSets

CONSTANTS
    Manager,        \* service managers
    Service,        \* what may be detected: [manager, type, scope, name, names,
                    \* enable, start, upgrade]; name is the first of the names
    Rule,           \* rules: [service, explicit, managers, enable, start, upgrade]
    NoChoice,       \* what a rule says of enable, start and upgrade if nothing
    MaxServices,    \* bound: services detected
    MaxRules        \* bound: rules in the manifest

ServiceName == UNION {s.names : s \in Service}

\* A rule that names no managers is for all of them.
ASSUME RulesAssumption ==
    /\ \A s \in Service : s.manager \in Manager /\ s.name \in s.names
    /\ \A r \in Rule : r.service \in ServiceName /\ r.explicit \in BOOLEAN
    /\ \A r \in Rule : r.explicit \/ r.managers = Manager
    /\ MaxServices \in Nat /\ MaxRules \in Nat

VARIABLES
    rules,      \* those of the package, in order
    at,         \* the number of the rule in work, or of the last one
    table,      \* by_service_manager_key: definitions by key; rule is 0 in what
                \* the plugin provided
    aliases,    \* aliases_by_name
    queue,      \* pending_queue
    seen,       \* seen_keys
    status,     \* how far the package is
    detections  \* counts up to MaxServices

vars == <<rules, at, table, aliases, queue, seen, status, detections>>

Key(s) == <<s.name, s.type, s.scope, s.manager>>
Keys == {Key(s) : s \in Service}
ManagerOf(key) == key[4]

Definition(s) ==
    [name |-> s.name, names |-> s.names, enable |-> s.enable, start |-> s.start,
     upgrade |-> s.upgrade, rule |-> 0]

Init ==
    /\ rules \in UNION {[1..n -> Rule] : n \in 0..MaxRules}
    /\ at = 0
    /\ table = <<>>
    /\ aliases = [n \in ServiceName |-> {}]
    /\ queue = {}
    /\ seen = {}
    /\ status = "new"
    /\ detections = 0

-----------------------------------------------------------------------------
(* Detection.                                                               *)

CheckManagers ==
    /\ status = "new"
    /\ status' = IF \A i \in DOMAIN rules : rules[i].managers \subseteq Manager
                 THEN "detecting" ELSE "failed"
    /\ UNCHANGED <<rules, at, table, aliases, queue, seen, detections>>

\* register_service; nothing keeps a manager from using a name twice, and the
\* last service takes the place of another one with the same key.
Register(s) ==
    /\ status = "detecting"
    /\ detections < MaxServices
    /\ detections' = detections + 1
    /\ table' = [k \in DOMAIN table \cup {Key(s)} |->
                    IF k = Key(s) THEN Definition(s) ELSE table[k]]
    /\ aliases' = [n \in ServiceName |->
                      IF n \in s.names THEN aliases[n] \cup {Key(s)} ELSE aliases[n]]
    /\ UNCHANGED <<rules, at, queue, seen, status>>

AllDetected ==
    /\ status = "detecting"
    /\ status' = "between"
    /\ UNCHANGED <<rules, at, table, aliases, queue, seen, detections>>

-----------------------------------------------------------------------------
(* Rules.                                                                   *)

AppliesTo(r, key) == ManagerOf(key) \in r.managers

Named(r) == {k \in aliases[r.service] : AppliesTo(r, k)}

\* Mutant: only the first name of a service is followed.
LinkedMutant(k, r) == {j \in aliases[table[k].name] : AppliesTo(r, j)}

\* The services that go by a name of the one with key k.
Linked(k, r) == {j \in UNION {aliases[n] : n \in table[k].names} : AppliesTo(r, j)}

\* apply_to_service_definition; both choices end up in auto_start_on_install.
Configured(d, r, i) ==
    [d EXCEPT !.rule = i,
              !.name = IF r.service \in d.names THEN r.service ELSE @,
              !.start = IF r.start # NoChoice THEN r.start
                        ELSE IF r.enable # NoChoice THEN r.enable ELSE @,
              !.upgrade = IF r.upgrade # NoChoice THEN r.upgrade ELSE @]

BeginRule ==
    /\ status = "between"
    /\ at < Len(rules)
    /\ at' = at + 1
    /\ queue' = Named(rules[at + 1])
    /\ seen' = {}
    /\ status' = IF queue' = {} THEN "failed" ELSE "spreading"
    /\ UNCHANGED <<rules, table, aliases, detections>>

\* Two rules for one service are an error.
ApplyRule(k) ==
    /\ status = "spreading"
    /\ k \in queue
    /\ IF table[k].rule # 0
       THEN /\ status' = "failed"
            /\ UNCHANGED <<table, queue, seen>>
       ELSE /\ table' = [table EXCEPT ![k] = Configured(@, rules[at], at)]
            /\ seen' = seen \cup {k}
            /\ queue' = (queue \cup Linked(k, rules[at])) \ seen'
            /\ UNCHANGED status
    /\ UNCHANGED <<rules, at, aliases, detections>>

\* Mutant: nobody checks that the managers have a service each.
ServedMutant(r) == TRUE

Served(r) == ~ r.explicit \/ {ManagerOf(k) : k \in seen} = r.managers

EndRule ==
    /\ status = "spreading"
    /\ queue = {}
    /\ status' = IF Served(rules[at]) THEN "between" ELSE "failed"
    /\ UNCHANGED <<rules, at, table, aliases, queue, seen, detections>>

\* The integrators get the definitions.
Integrate ==
    /\ status = "between"
    /\ at = Len(rules)
    /\ status' = "integrated"
    /\ UNCHANGED <<rules, at, table, aliases, queue, seen, detections>>

Next ==
    \/ CheckManagers
    \/ \E s \in Service : Register(s)
    \/ AllDetected
    \/ BeginRule
    \/ \E k \in queue : ApplyRule(k)
    \/ EndRule
    \/ Integrate

Spec == Init /\ [][Next]_vars

-----------------------------------------------------------------------------
(* Properties.                                                              *)

Choice ==
    UNION ({{s.enable, s.start, s.upgrade} : s \in Service}
               \cup {{r.enable, r.start, r.upgrade} : r \in Rule})

Definitions ==
    [name : ServiceName, names : SUBSET ServiceName, enable : Choice, start : Choice,
     upgrade : Choice, rule : 0..at]

TypeOK ==
    /\ rules \in UNION {[1..n -> Rule] : n \in 0..MaxRules}
    /\ at \in 0..Len(rules)
    /\ DOMAIN table \subseteq Keys
    /\ table \in [DOMAIN table -> Definitions]
    /\ aliases \in [ServiceName -> SUBSET DOMAIN table]
    /\ queue \subseteq DOMAIN table
    /\ seen \subseteq DOMAIN table
    /\ status \in {"new", "detecting", "between", "spreading", "integrated", "failed"}

Known(n, r) == {k \in aliases[n] : AppliesTo(r, k)}

Holds(S, r) ==
    /\ Known(r.service, r) \subseteq S
    /\ \A k \in S : \A n \in table[k].names : Known(n, r) \subseteq S

\* S is what a rule is for: the smallest set of services that has all with its
\* name and, with each service, those that share a name with it.
Reach(S, r) ==
    /\ Holds(S, r)
    /\ \A T \in SUBSET DOMAIN table : Holds(T, r) => S \subseteq T

Bearing(i) == {k \in DOMAIN table : table[k].rule = i}
InWork == IF status \in {"spreading", "failed"} THEN {at} ELSE {}

\* Whatever the order in which the set gave them up, the services that bear a
\* rule are exactly those it is for, over chains of aliases and across managers;
\* no rule takes a service from another one.
RuleReachesItsServices ==
    \A i \in 1..at \ InWork : Reach(Bearing(i), rules[i])

\* A package fails for a reason: a manager nobody knows, a rule without a
\* service, a service with two rules, or a manager a rule insists on that has no
\* service for it. A package with such a rule does fail.
AtFault(i) ==
    \E mine \in SUBSET DOMAIN table :
        /\ Reach(mine, rules[i])
        /\ \/ mine = {}
           \/ \E k \in mine : table[k].rule \notin {0, i}
           \/ rules[i].explicit /\ {ManagerOf(k) : k \in mine} # rules[i].managers
FailsForAReason ==
    /\ status = "failed" =>
          IF at = 0 THEN \E i \in DOMAIN rules : ~ (rules[i].managers \subseteq Manager)
          ELSE AtFault(at)
    /\ \A i \in 1..at \ InWork : ~ AtFault(i)

\* Violated: enable-on-install "does not affect whether the service will be
\* started" (MANIFEST-FORMAT.md).
EnablingDoesNotStart ==
    \A k \in DOMAIN table :
        table[k].rule # 0 /\ rules[table[k].rule].start = NoChoice =>
            \E s \in Service : Key(s) = k /\ s.names = table[k].names
                               /\ s.start = table[k].start
=============================================================================
