SPECIFICATION Spec
CONSTANTS
    systemd = systemd
    sysvinit = sysvinit
    runit = runit
    Manager <- Managers
    Service <- Services
    Rule <- Rules
    NoChoice = NoChoice
    MaxServices = 5
    MaxRules = 2
CHECK_DEADLOCK FALSE
INVARIANTS RuleReachesItsServices FailsForAReason
