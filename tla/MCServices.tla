------------------------------ MODULE MCServices ------------------------------
(* Instances of ServiceRules: names foo, bar and baz, which a chain of aliases *)
(* links, and two service managers.                                            *)
EXTENDS ServiceRules

CONSTANTS systemd, sysvinit, runit

Managers == {systemd, sysvinit}

A(manager, name, names) ==
    [manager |-> manager, type |-> "service", scope |-> "system", name |-> name,
     names |-> names, enable |-> TRUE, start |-> TRUE, upgrade |-> "restart"]

\* foo - bar - baz for systemd; the links between the managers are foo and baz;
\* a second definition of foo without an alias.
Services ==
    {A(systemd, "foo", {"foo", "bar"}),
     A(systemd, "bar", {"bar", "baz"}),
     A(systemd, "baz", {"baz"}),
     A(sysvinit, "foo", {"foo"}),
     A(sysvinit, "baz", {"baz"}),
     [A(systemd, "foo", {"foo"}) EXCEPT !.start = FALSE]}

R(service, explicit, managers, enable, start, upgrade) ==
    [service |-> service, explicit |-> explicit, managers |-> managers,
     enable |-> enable, start |-> start, upgrade |-> upgrade]

Rules ==
    {R(n, FALSE, Managers, NoChoice, FALSE, NoChoice) : n \in {"foo", "bar", "baz"}}
    \cup {R(n, TRUE, m, FALSE, NoChoice, "stop-then-start") :
            n \in {"foo", "baz"}, m \in {{systemd}, {sysvinit}, Managers}}
    \cup {R("foo", TRUE, {runit}, NoChoice, TRUE, NoChoice)}
=============================================================================
