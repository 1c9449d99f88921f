CONSTANTS
    FsPath <- MCFsPath
    KindOf <- MCKindOf
    Package <- MCPackage
    Acted <- MCActed
    SearchDirs <- MCSearchDirs
    CheckDirs <- MCCheckDirs
    StagingRoot <- MCStagingRoot
    AutoDiscard <- MCAutoDiscard
    RuleSpace <- MCRules
    MaxRules = 2
SPECIFICATION Spec
INVARIANTS  OneSearchDirPerPackage
