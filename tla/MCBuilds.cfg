SPECIFICATION Spec
CONSTANTS
    ArchAll <- MCArchAll
    ArchAny <- MCArchAny
    OtherPackage <- MCOther
    Udeb <- MCUdeb
    Manifests <- MCManifests
    UsesDebhelper = TRUE
    DefaultEnv <- Plain
    BaseEnv <- MCBaseEnv
    NoName = ""
    Numbered <- MCNumbered
    MaxTasks = 3
CHECK_DEADLOCK FALSE
INVARIANTS EnvironmentIsDocumented BuildsAreApart CleanUndoesBuilds
