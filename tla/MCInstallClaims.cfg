CONSTANTS
    FsPath <- MCFsPath
    KindOf <- MCKindOf
    Package <- MCPackage
    Acted <- MCPackage
    SearchDirs <- OneSearchDir
    CheckDirs <- MCCheckDirs
    StagingRoot <- NoStaging
    AutoDiscard <- PluginDiscardsC
    RuleSpace <- MCRules
    MaxRules = 3
SPECIFICATION Spec
INVARIANTS ExactTwiceNeverReached NothingUnclaimedInstalled StackIsFresh ClaimedDirIsComplete ReservedIsInstalled
PROPERTIES ClaimsSpec 
